---------------------------- MODULE Spec2Model ----------------------------
(***************************************************************************)
(* Model of the coin / game-credit admin API: the roster synthesis of      *)
(* GET /api/admin/users (two versions of routes/adminUsers.js), the        *)
(* approve / block / delete handlers, the login-session routes of          *)
(* api/routes/logins.js, the games routes and the UserSessionBar           *)
(* component that signs a user in and out.                                 *)
(*                                                                         *)
(* Strings are sequences of one-character strings, so that trim(),         *)
(* toLowerCase() and the regex replacements are computed character by      *)
(* character.  Dates are ticks of a logical clock.                         *)
(***************************************************************************)
EXTENDS Integers, Sequences, FiniteSets, TLC

VARIABLES
    users,      \* User collection: set of documents
    nextUid,    \* next _id handed out by the User collection
    tombs,      \* DeletedUsername collection: set of stored username strings
    ledger,     \* GameEntry collection: set of documents
    nextEid,    \* next _id handed out by the GameEntry collection
    sessions,   \* LoginSession collection: set of documents
    nextSid,    \* next _id handed out by the LoginSession collection
    now,        \* the clock read by new Date()
    uniqueIdx,  \* whether the User collection enforces unique username / email
    lastOp,     \* the last request served and its response
    pc,         \* position of each in-flight request
    loc,        \* the local variables of each in-flight request
    games,      \* Game collection: set of documents
    nextGid,    \* next id handed out to a Game
    client      \* state of the UserSessionBar component and its localStorage

vars == <<users, nextUid, tombs, ledger, nextEid, sessions, nextSid, now,
          uniqueIdx, lastOp, pc, loc, games, nextGid, client>>

-----------------------------------------------------------------------------
(* Bounds of the model *)

MaxUsers == 2
MaxLedger == 2
MaxSessions == 3
MaxClock == 4
MaxGames == 2

-----------------------------------------------------------------------------
(* Strings *)

\* null / undefined of a string-valued field
Null == <<"null">>
\* null of a date-valued field (the clock starts at 1)
NoTime == 0

IsSpace(c) == c = " "

LowerChar(c) ==
    CASE c = "A" -> "a"
      [] c = "B" -> "b"
      [] OTHER -> c

\* [a-z0-9]
IsAlnum(c) == c \in {"a", "b", "0", "1", "2", "3", "4", "5", "6", "7", "8", "9"}

RECURSIVE TrimLeft(_)
TrimLeft(s) ==
    IF s = <<>> THEN <<>>
    ELSE IF IsSpace(Head(s)) THEN TrimLeft(Tail(s)) ELSE s

RECURSIVE TrimRight(_)
TrimRight(s) ==
    IF s = <<>> THEN <<>>
    ELSE IF IsSpace(s[Len(s)]) THEN TrimRight(SubSeq(s, 1, Len(s) - 1)) ELSE s

\* String.prototype.trim and Mongo's $trim
Trim(s) == TrimRight(TrimLeft(s))

\* String.prototype.toLowerCase
ToLower(s) == [i \in 1..Len(s) |-> LowerChar(s[i])]

NotSpace(c) == ~IsSpace(c)

\* String(v || "")
Str(v) == IF v = Null THEN <<>> ELSE v

\* u.username ? String(u.username).trim() : ""
TrimOrEmpty(v) == IF v = Null \/ v = <<>> THEN <<>> ELSE Trim(v)

normUsernameKey(v) == ToLower(Trim(Str(v)))

emailLocalFromUsername(uname) ==
    SelectSeq(SelectSeq(ToLower(Trim(Str(uname))), NotSpace), IsAlnum)

\* clean.toLowerCase().replace(/\s+/g, "") of the older roster handler
baseLocal_v1(clean) == SelectSeq(ToLower(clean), NotSpace)

\* decimal rendering of the collision counter
DigitStr(i) == <<"1", "2", "3", "4", "5", "6", "7", "8", "9">>[i]

NoEmailDomain == <<"@noemail.local">>

\* the while loop: first candidate not in existingEmails
RECURSIVE NextFreeEmail(_, _, _, _)
NextFreeEmail(base, candidate, counter, emails) ==
    IF candidate \in emails
    THEN NextFreeEmail(base, base \o <<"+", DigitStr(counter)>> \o NoEmailDomain,
                       counter + 1, emails)
    ELSE candidate

PlaceholderEmail_base(base, emails) == base \o NoEmailDomain

PlaceholderEmail(base, emails) ==
    NextFreeEmail(base, base \o NoEmailDomain, 1, emails)

\* new RegExp(`^${escapeRegex(username)}$`, "i") applied to a stored string
RxMatches(username, stored) == stored # Null /\ ToLower(stored) = ToLower(username)

\* all orderings of a finite set (the order of an aggregation's rows)
Orderings(S) ==
    {f \in [1..Cardinality(S) -> S] : \A i, j \in 1..Cardinality(S) : f[i] = f[j] => i = j}

-----------------------------------------------------------------------------
(* Documents and inputs *)

\* usernames a ledger entry, a virtual id or a registration can carry
Names == { <<"A">>, <<"a">>, <<" ", "a">>, <<"a", "$">>, <<"$">> }

\* (username, createdBy) pairs of the entry-submission flow
LedgerInputs ==
    [username : Names, createdBy : {Null}]
        \cup { [username |-> Null, createdBy |-> <<"b">>],
               [username |-> <<>>, createdBy |-> <<"B">>] }

\* ?status= of the roster request ("" when absent)
\* the entries that tell the older handler's comparisons apart
LedgerInputs_v1 ==
    [username : {<<"A">>, <<"a">>, <<" ", "a">>}, createdBy : {Null}]
        \cup { [username |-> Null, createdBy |-> <<"b">>] }

StatusParams == {"", "pending", "active", "blocked"}

RealEmail == <<"a", "@", "x">>

\* a sessionId string that is no ObjectId (ids of documents are 1, 2, ...;
\* 0 stands for a missing sessionId)
BadId == -1

\* what a client may send as sessionId
EndIds == {BadId} \cup (0..MaxSessions)

Reqs == {"r1", "r2"}

UserDoc(id, username, email, status, isApproved) ==
    [id |-> id, username |-> username, email |-> email, status |-> status,
     isApproved |-> isApproved, role |-> "user", isAdmin |-> FALSE,
     lastSignInAt |-> NoTime]

\* GameEntry.date, "YYYY-MM-DD"
March5 == <<"2", "0", "2", "4", "-", "0", "3", "-", "0", "5">>
April1 == <<"2", "0", "2", "4", "-", "0", "4", "-", "0", "1">>

\* amountFinal of an entry that has none
NoAmount == -1

\* a GameEntry document
GameEntryDoc(eid, username, createdBy, type, amount, amountFinal, gameName, date) ==
    [eid |-> eid, username |-> username, createdBy |-> createdBy, type |-> type,
     amount |-> amount, amountFinal |-> amountFinal, gameName |-> gameName,
     date |-> date]

SessionDoc(sid, username, email, signInAt, signOutAt, createdAt) ==
    [sid |-> sid, username |-> username, email |-> email, signInAt |-> signInAt,
     signOutAt |-> signOutAt, createdAt |-> createdAt]

\* what a request answers: HTTP status and the parts of the body the properties read
Reply(op, status, sid, rows) ==
    [op |-> op, status |-> status, arg |-> Null, sid |-> sid, rows |-> rows,
     inserted |-> {}, insertErr |-> FALSE, again |-> FALSE, body |-> {},
     query |-> <<>>, list |-> <<>>]

NoReply == Reply("none", 0, 0, {})

\* the component as mounted with an empty localStorage: sessionId 0 is null,
\* userSession tells whether localStorage holds the item, loggedOut whether
\* onLogout has been called, last names the handler that ran last
NoClient ==
    [isSignedIn |-> FALSE, sessionId |-> 0, signInDateTime |-> NoTime,
     userSession |-> FALSE, loggedOut |-> FALSE, last |-> "none"]

NoLoc == [allUsers |-> {}, deletedRows |-> {}, docs |-> <<>>, status |-> "",
          user |-> Null, userDoc |-> UserDoc(0, Null, Null, "pending", FALSE),
          signInAt |-> NoTime, tClose |-> NoTime, mine |-> 0, insertErr |-> FALSE,
          username |-> Null, id |-> 0, virtual |-> FALSE, handler |-> "",
          purged |-> FALSE]

-----------------------------------------------------------------------------
(* The User collection's insertMany(docs, { ordered: false }) *)

\* a unique index on username and on email rejects the document
DuplicateKey(us, d) ==
    \E u \in us : u.username = d.username \/ u.email = d.email

\* documents are tried in order; a failed one is skipped, the rest are inserted
RECURSIVE InsertMany(_, _, _, _, _, _)
InsertMany(us, uid, docs, i, failing, unique) ==
    IF i > Len(docs) THEN [users |-> us, nextUid |-> uid, err |-> FALSE]
    ELSE IF i \in failing \/ (unique /\ DuplicateKey(us, docs[i]))
         THEN [InsertMany(us, uid, docs, i + 1, failing, unique) EXCEPT !.err = TRUE]
         ELSE InsertMany(us \cup {[docs[i] EXCEPT !.id = uid]}, uid + 1,
                         docs, i + 1, failing, unique)

-----------------------------------------------------------------------------
(* Roster synthesis, routes/adminUsers.js as of src/unnamed/part_000 *)

realUsernames(allUsers) == {TrimOrEmpty(u.username) : u \in allUsers} \ {<<>>}

realUsernameLowerSet_raw(allUsers) == realUsernames(allUsers)

realUsernameLowerSet(allUsers) == {normUsernameKey(n) : n \in realUsernames(allUsers)}

existingEmails(allUsers) ==
    {IF u.email = Null THEN <<>> ELSE ToLower(Trim(u.email)) : u \in allUsers} \ {<<>>}

deletedUsernameLowerSet(deletedRows) ==
    {normUsernameKey(d) : d \in deletedRows} \ {<<>>}

\* the rows of gameUserAgg, mapped and filtered: distinct trimmed usernames
gameUsernames(entries) ==
    {TrimOrEmpty(e.username) : e \in {x \in entries : x.username # <<>>}} \ {<<>>}

\* case-insensitive de-duplication that keeps the first spelling seen
RECURSIVE uniqueGameUsernames(_, _, _)
uniqueGameUsernames(names, i, seenKeys) ==
    IF i > Len(names) THEN <<>>
    ELSE LET key == normUsernameKey(names[i]) IN
         IF key = <<>> \/ key \in seenKeys
         THEN uniqueGameUsernames(names, i + 1, seenKeys)
         ELSE <<Trim(names[i])>> \o uniqueGameUsernames(names, i + 1, seenKeys \cup {key})

IsMissing(u, allUsers, deletedRows) ==
    /\ normUsernameKey(u) \notin realUsernameLowerSet(allUsers)
    /\ normUsernameKey(u) \notin deletedUsernameLowerSet(deletedRows)

missingUsernames(names, allUsers, deletedRows) ==
    LET uniq == uniqueGameUsernames(names, 1, {})
        Keep(u) == IsMissing(u, allUsers, deletedRows)
    IN SelectSeq(uniq, Keep)

\* the for loop that fills docs; emails is existingEmails as it grows
RECURSIVE BuildDocs(_, _, _)
BuildDocs(missing, i, emails) ==
    IF i > Len(missing) THEN <<>>
    ELSE LET clean == Trim(missing[i])
             key == normUsernameKey(clean)
             baseLocal == emailLocalFromUsername(clean)
         IN IF clean = <<>> \/ key = <<>> \/ baseLocal = <<>>
            THEN BuildDocs(missing, i + 1, emails)
            ELSE LET email == PlaceholderEmail(baseLocal, emails)
                 IN <<UserDoc(0, clean, email, "pending", FALSE)>>
                        \o BuildDocs(missing, i + 1, emails \cup {email})

\* docs of one pass: names is gameUsernames in the order the aggregation gave
RosterDocs(names, allUsers, deletedRows) ==
    BuildDocs(missingUsernames(names, allUsers, deletedRows), 1,
              existingEmails(allUsers))

IsPlaceholderEmail(email) ==
    /\ email # Null
    /\ Len(email) >= 1
    /\ <<email[Len(email)]>> = NoEmailDomain

\* User.find(baseUserQuery): ?status filter, and no placeholders for ?status=active
loadUsersForResponse(us, status) ==
    {u \in us :
        /\ status # "" => u.status = status
        /\ status = "active" => ~IsPlaceholderEmail(u.email)}

\* the catch around insertMany logs and lets the request go on to the response
RosterReply_500(op, rows, inserted, insertErr) ==
    IF insertErr
    THEN [Reply(op, 500, 0, {}) EXCEPT !.inserted = inserted, !.insertErr = insertErr]
    ELSE [Reply(op, 200, 0, {u.id : u \in rows})
             EXCEPT !.inserted = inserted, !.insertErr = insertErr]

RosterReply(op, rows, inserted, insertErr) ==
    [Reply(op, 200, 0, {u.id : u \in rows})
        EXCEPT !.inserted = inserted, !.insertErr = insertErr]

findAllUsers_filtered(us, status) == loadUsersForResponse(us, status)

\* User.find({}, "username email"): the dedupe sets are built from every
\* account, whatever ?status= asks for
findAllUsers(us, status) == us

\* usernames of the rows of the response
usernamesOf(rows) == {TrimOrEmpty(u.username) : u \in rows} \ {<<>>}

Amt_amount(e) == e.amount

\* $ifNull: ["$amountFinal", "$amount"]
Amt(e) == IF e.amountFinal # NoAmount THEN e.amountFinal ELSE e.amount

RECURSIVE SumAmt(_)
SumAmt(S) ==
    IF S = {} THEN 0
    ELSE LET e == CHOOSE x \in S : TRUE IN Amt(e) + SumAmt(S \ {e})

\* one $group row of a totals aggregate
TotalsRow(group) ==
    [totalDeposit  |-> SumAmt({e \in group : e.type = "deposit"}),
     totalRedeem   |-> SumAmt({e \in group : e.type = "redeem"}),
     totalFreeplay |-> SumAmt({e \in group : e.type = "freeplay"})]

\* totalsByUser[uname] of part_000: the group of $trim(username) = uname
totalsByUser(entries, usernames, uname) ==
    TotalsRow({e \in entries : /\ e.username # Null
                                /\ Trim(e.username) \in usernames
                                /\ Trim(e.username) = uname})

LatestSessions_any(ss, uname) ==
    {x \in ss : x.username # Null /\ Trim(x.username) = uname}

\* the sessions $first can pick for uname after $sort: { signInAt: -1 }
LatestSessions(ss, uname) ==
    LET mine == {x \in ss : x.username # Null /\ Trim(x.username) = uname}
    IN {x \in mine : \A y \in mine : y.signInAt <= x.signInAt}

\* the results LoginSession.aggregate can give: one session per group
sessionsAgg(ss, usernames) ==
    LET keys == {Trim(x.username) : x \in {y \in ss : y.username # Null}}
                    \cap usernames
    IN {f \in [keys -> ss] : \A k \in keys : f[k] \in LatestSessions(ss, k)}

\* a row of the roster response
RosterRow(u, totals, lastSignInAt, lastSignOutAt, isOnline) ==
    [id |-> u.id, username |-> u.username, status |-> u.status,
     totalDeposit |-> totals.totalDeposit, totalRedeem |-> totals.totalRedeem,
     totalFreeplay |-> totals.totalFreeplay, totalPayments |-> totals.totalRedeem,
     lastSignInAt |-> lastSignInAt, lastSignOutAt |-> lastSignOutAt,
     isOnline |-> isOnline]

\* the merge of part_000
enhanced(rows, entries, byUser) ==
    LET usernames == usernamesOf(rows)
    IN {LET uname == TrimOrEmpty(u.username)
            totals == totalsByUser(entries, usernames, uname)
        IN IF uname \in DOMAIN byUser
           THEN RosterRow(u, totals, byUser[uname].signInAt, byUser[uname].signOutAt,
                          byUser[uname].signInAt # NoTime
                              /\ byUser[uname].signOutAt = NoTime)
           ELSE RosterRow(u, totals, NoTime, NoTime, FALSE)
        : u \in rows}

\* history: this pass follows, with nothing in between, a pass of the same
\* handler whose inserts all succeeded
FollowsCleanPass(op) == lastOp.op = op /\ ~lastOp.insertErr

-----------------------------------------------------------------------------
(* Roster synthesis, src/api/routes/adminUsers.js (compares usernames as   *)
(* they are spelled, and falls back to createdBy)                          *)

realUsernameSet_v1(allUsers) == {TrimOrEmpty(u.username) : u \in allUsers} \ {<<>>}

deletedUsernameSet_v1(deletedRows) == {TrimOrEmpty(d) : d \in deletedRows} \ {<<>>}

effectiveUsername_v1(e) ==
    IF e.username # Null /\ e.username # <<>> THEN e.username ELSE e.createdBy

gameUsernames_v1(entries) ==
    {TrimOrEmpty(effectiveUsername_v1(e)) :
        e \in {x \in entries : effectiveUsername_v1(x) # Null}} \ {<<>>}

missingUsernames_v1(names, allUsers, deletedRows) ==
    LET Keep(uname) == /\ uname \notin realUsernameSet_v1(allUsers)
                       /\ uname \notin deletedUsernameSet_v1(deletedRows)
    IN SelectSeq(names, Keep)

RECURSIVE BuildDocs_v1(_, _, _)
BuildDocs_v1(missing, i, emails) ==
    IF i > Len(missing) THEN <<>>
    ELSE LET clean == Trim(missing[i]) IN
         IF clean = <<>> THEN BuildDocs_v1(missing, i + 1, emails)
         ELSE LET candidate == PlaceholderEmail(baseLocal_v1(clean), emails)
              IN <<UserDoc(0, clean, candidate, "pending", FALSE)>>
                     \o BuildDocs_v1(missing, i + 1, emails \cup {candidate})

RosterDocs_v1(names, allUsers, deletedRows) ==
    BuildDocs_v1(missingUsernames_v1(names, allUsers, deletedRows), 1,
                 existingEmails(allUsers))

loadUsersForResponse_v1(us, status) ==
    {u \in us : status # "" => u.status = status}

\* totalsByUser[u.username] of adminUsers.js: entries matched by username or
\* createdBy as spelled, grouped by $ifNull(username, createdBy)
totalsByUser_v1(entries, usernames, username) ==
    TotalsRow({e \in entries :
                 /\ e.username \in usernames \/ e.createdBy \in usernames
                 /\ (IF e.username # Null THEN e.username ELSE e.createdBy) = username})

LatestSessions_v1(ss, uname) ==
    LET mine == {x \in ss : x.username = uname}
    IN {x \in mine : \A y \in mine : y.signInAt <= x.signInAt}

sessionsAgg_v1(ss, usernames) ==
    LET keys == {x.username : x \in ss} \cap usernames
    IN {f \in [keys -> ss] : \A k \in keys : f[k] \in LatestSessions_v1(ss, k)}

\* the merge of adminUsers.js: without a session the row keeps the account's
\* own lastSignInAt (no code of the sources writes an account's lastSignOutAt)
enhanced_v1(rows, entries, byUser) ==
    LET usernames == usernamesOf(rows)
    IN {LET totals == totalsByUser_v1(entries, usernames, u.username)
        IN IF u.username \in DOMAIN byUser
           THEN RosterRow(u, totals, byUser[u.username].signInAt,
                          byUser[u.username].signOutAt,
                          byUser[u.username].signInAt # NoTime
                              /\ byUser[u.username].signOutAt = NoTime)
           ELSE RosterRow(u, totals, u.lastSignInAt, NoTime, FALSE)
        : u \in rows}

-----------------------------------------------------------------------------
(* Initial state *)

Init ==
    /\ users = {}
    /\ nextUid = 1
    /\ tombs = {}
    /\ ledger = {}
    /\ nextEid = 1
    /\ sessions = {}
    /\ nextSid = 1
    /\ now = 1
    /\ uniqueIdx \in BOOLEAN
    /\ lastOp = NoReply
    /\ pc = [r \in Reqs |-> "idle"]
    /\ loc = [r \in Reqs |-> NoLoc]
    /\ games = {}
    /\ nextGid = 1
    /\ client = NoClient

-----------------------------------------------------------------------------
(* The entry-submission flow appends a GameEntry *)

\* an entry with every field given
AppendEntry(e) ==
    /\ nextEid <= MaxLedger
    /\ ledger' = ledger \cup {[e EXCEPT !.eid = nextEid]}
    /\ nextEid' = nextEid + 1
    /\ lastOp' = Reply("entry", 201, 0, {})
    /\ UNCHANGED <<users, nextUid, tombs, sessions, nextSid, now, uniqueIdx, client, games, nextGid, pc, loc>>

\* an entry of which only the names matter: a deposit of nothing
AppendLedger(in) ==
    AppendEntry(GameEntryDoc(0, in.username, in.createdBy, "deposit", 0, NoAmount,
                             <<"g">>, March5))

-----------------------------------------------------------------------------
(* GET /api/admin/users served without interruption *)

\* part_000: order is the order of gameUserAgg's rows, failing the inserts
\* the store refuses for a reason of its own
ListUsers(status, order, failing) ==
    LET docs == RosterDocs(order, findAllUsers(users, status), tombs)
        ins == InsertMany(users, nextUid, docs, 1, failing, uniqueIdx)
    IN /\ failing \subseteq 1..Len(docs)
       /\ ins.nextUid <= MaxUsers + 1
       /\ users' = ins.users
       /\ nextUid' = ins.nextUid
       /\ \E byUser \in sessionsAgg(sessions, usernamesOf(
                                  loadUsersForResponse(ins.users, status))) :
            lastOp' = [RosterReply("list", loadUsersForResponse(ins.users, status),
                                   nextUid..(ins.nextUid - 1), ins.err)
                         EXCEPT !.again = FollowsCleanPass("list"),
                                !.body = enhanced(loadUsersForResponse(ins.users, status),
                                                  ledger, byUser)]
       /\ UNCHANGED <<tombs, ledger, nextEid, sessions, nextSid, now, uniqueIdx, client, games, nextGid, pc, loc>>

ListUsers_v1(status, order, failing) ==
    LET docs == RosterDocs_v1(order, findAllUsers(users, status), tombs)
        ins == InsertMany(users, nextUid, docs, 1, failing, uniqueIdx)
    IN /\ failing \subseteq 1..Len(docs)
       /\ ins.nextUid <= MaxUsers + 1
       /\ users' = ins.users
       /\ nextUid' = ins.nextUid
       /\ \E byUser \in sessionsAgg_v1(sessions, usernamesOf(
                                  loadUsersForResponse_v1(ins.users, status))) :
            lastOp' = [RosterReply("list_v1", loadUsersForResponse_v1(ins.users, status),
                                   nextUid..(ins.nextUid - 1), ins.err)
                         EXCEPT !.again = FollowsCleanPass("list_v1"),
                                !.body = enhanced_v1(
                                            loadUsersForResponse_v1(ins.users, status),
                                            ledger, byUser)]
       /\ UNCHANGED <<tombs, ledger, nextEid, sessions, nextSid, now, uniqueIdx, client, games, nextGid, pc, loc>>

-----------------------------------------------------------------------------
(* PATCH /api/admin/users/:id/approve and DELETE /api/admin/users/:id,     *)
(* part_000                                                                *)

Approved_statusOnly(u) == [u EXCEPT !.status = "active"]

\* { $set: { isApproved: true, status: "active" } }
Approved(u) == [u EXCEPT !.isApproved = TRUE, !.status = "active"]

\* id = "virtual:<name>"
ApproveVirtual(name) ==
    LET username == Trim(name)
        found == {u \in users : RxMatches(username, u.username)}
    IN /\ IF username = <<>>
          THEN /\ lastOp' = Reply("approve", 400, 0, {})
               /\ users' = users
          ELSE IF found = {}
          THEN /\ lastOp' = Reply("approve", 404, 0, {})
               /\ users' = users
          ELSE \E u \in found :
                 /\ users' = (users \ {u}) \cup {Approved(u)}
                 /\ lastOp' = Reply("approve", 200, 0, {u.id})
       /\ UNCHANGED <<nextUid, tombs, ledger, nextEid, sessions, nextSid, now,
                      uniqueIdx, client, games, nextGid, pc, loc>>

\* id = an ObjectId
ApproveById(id) ==
    LET found == {u \in users : u.id = id}
    IN /\ IF found = {}
          THEN /\ lastOp' = Reply("approve", 404, 0, {})
               /\ users' = users
          ELSE /\ users' = (users \ found) \cup {Approved(u) : u \in found}
               /\ lastOp' = Reply("approve", 200, 0, {id})
       /\ UNCHANGED <<nextUid, tombs, ledger, nextEid, sessions, nextSid, now,
                      uniqueIdx, client, games, nextGid, pc, loc>>

\* id = "virtual:<name>": tombstone, then sessions, entries and one user
DeleteVirtual(name) ==
    LET username == Trim(name)
        deletedKey == normUsernameKey(username)
        found == {u \in users : RxMatches(username, u.username)}
    IN /\ IF username = <<>>
          THEN /\ lastOp' = [Reply("delete", 400, 0, {}) EXCEPT !.arg = username]
               /\ UNCHANGED <<users, tombs, ledger, sessions>>
          ELSE /\ tombs' = tombs \cup {deletedKey}
               /\ sessions' = {x \in sessions : ~RxMatches(username, x.username)}
               /\ ledger' = {e \in ledger : ~RxMatches(username, e.username)}
               /\ IF found = {} THEN users' = users
                  ELSE \E u \in found : users' = users \ {u}
               /\ lastOp' = [Reply("delete", 200, 0, {}) EXCEPT !.arg = username]
       /\ UNCHANGED <<nextUid, nextEid, nextSid, now, uniqueIdx, client, games, nextGid, pc, loc>>

\* id = an ObjectId
DeleteById(id) ==
    LET found == {u \in users : u.id = id}
    IN /\ IF found = {}
          THEN /\ lastOp' = Reply("delete", 404, 0, {})
               /\ UNCHANGED <<users, tombs, ledger, sessions>>
          ELSE LET user == CHOOSE u \in found : TRUE
                   username == TrimOrEmpty(user.username)
               IN /\ IF username # <<>>
                     THEN /\ tombs' = tombs \cup {normUsernameKey(username)}
                          /\ sessions' = {x \in sessions : x.username # username}
                          /\ ledger' = {e \in ledger : e.username # username}
                     ELSE UNCHANGED <<tombs, sessions, ledger>>
                  /\ users' = users \ found
                  /\ lastOp' = [Reply("delete", 200, 0, {id}) EXCEPT !.arg = username]
       /\ UNCHANGED <<nextUid, nextEid, nextSid, now, uniqueIdx, client, games, nextGid, pc, loc>>

-----------------------------------------------------------------------------
(* approve, block and delete of src/api/routes/adminUsers.js               *)

\* the User collection refuses an update that would repeat another's email
EmailTaken(us, id, email) == \E u \in us : u.id # id /\ u.email = email

\* body.email is "" when absent
ApproveById_v1(id, email) ==
    LET found == {u \in users : u.id = id}
        newEmail == Trim(email)
    IN /\ IF found = {}
          THEN /\ lastOp' = Reply("approve", 404, 0, {})
               /\ UNCHANGED <<users, sessions, nextSid, now>>
          ELSE LET old == CHOOSE u \in found : TRUE
                   upd == [old EXCEPT !.isApproved = TRUE, !.status = "active",
                                      !.lastSignInAt = now,
                                      !.email = IF newEmail # <<>> THEN newEmail ELSE @]
               IN IF uniqueIdx /\ newEmail # <<>> /\ EmailTaken(users, id, newEmail)
                  THEN /\ lastOp' = Reply("approve", 500, 0, {})
                       /\ UNCHANGED <<users, sessions, nextSid, now>>
                  ELSE /\ now <= MaxClock
                       /\ nextSid <= MaxSessions
                       /\ now' = now + 1
                       /\ users' = (users \ found) \cup {upd}
                       /\ sessions' = sessions \cup
                            {SessionDoc(nextSid, upd.username, upd.email, now, NoTime, now)}
                       /\ nextSid' = nextSid + 1
                       /\ lastOp' = Reply("approve", 200, nextSid, {id})
       /\ UNCHANGED <<nextUid, tombs, ledger, nextEid, uniqueIdx, client, games, nextGid, pc, loc>>

Blocked_statusOnly(u) == [u EXCEPT !.status = "blocked"]

\* the update of block: { isApproved: false, status: "blocked" }
Blocked(u) == [u EXCEPT !.isApproved = FALSE, !.status = "blocked"]

BlockById_v1(id) ==
    LET found == {u \in users : u.id = id}
    IN /\ IF found = {}
          THEN /\ lastOp' = Reply("block", 404, 0, {})
               /\ users' = users
          ELSE /\ users' = (users \ found) \cup {Blocked(u) : u \in found}
               /\ lastOp' = Reply("block", 200, 0, {id})
       /\ UNCHANGED <<nextUid, tombs, ledger, nextEid, sessions, nextSid, now,
                      uniqueIdx, client, games, nextGid, pc, loc>>

DeleteVirtual_v1(name) ==
    LET username == Trim(name)
    IN /\ IF username = <<>>
          THEN /\ lastOp' = [Reply("delete", 400, 0, {}) EXCEPT !.arg = username]
               /\ UNCHANGED <<tombs, sessions>>
          ELSE /\ tombs' = tombs \cup {username}
               /\ sessions' = {x \in sessions : x.username # username}
               /\ lastOp' = [Reply("delete", 200, 0, {}) EXCEPT !.arg = username]
       /\ UNCHANGED <<users, nextUid, ledger, nextEid, nextSid, now, uniqueIdx, client, games, nextGid, pc, loc>>

DeleteById_v1(id) ==
    LET found == {u \in users : u.id = id}
    IN /\ IF found = {}
          THEN /\ lastOp' = Reply("delete", 404, 0, {})
               /\ UNCHANGED <<users, tombs, sessions>>
          ELSE LET user == CHOOSE u \in found : TRUE
                   username == TrimOrEmpty(user.username)
               IN /\ IF username # <<>>
                     THEN /\ tombs' = tombs \cup {username}
                          /\ sessions' = {x \in sessions : x.username # username}
                     ELSE UNCHANGED <<tombs, sessions>>
                  /\ users' = users \ found
                  /\ lastOp' = [Reply("delete", 200, 0, {id}) EXCEPT !.arg = username]
       /\ UNCHANGED <<nextUid, ledger, nextEid, nextSid, now, uniqueIdx, client, games, nextGid, pc, loc>>

-----------------------------------------------------------------------------
(* api/routes/logins.js, first router: POST /start and POST /end           *)

isApprovedUser_any(user) == TRUE

isApprovedUser(user) == user.isApproved = TRUE \/ user.status = "active"

IsOpen(x) == x.signOutAt = NoTime

ClosePrevious_none(ss, username, t) == ss

\* LoginSession.updateMany({ username, signOutAt: null }, { signOutAt: new Date() })
ClosePrevious(ss, username, t) ==
    {IF x.username = username /\ IsOpen(x) THEN [x EXCEPT !.signOutAt = t] ELSE x
        : x \in ss}

\* the whole handler for the user document findOne returned
StartFor(user, email, signInAt) ==
    IF ~isApprovedUser(user) \/ user.status = "blocked"
    THEN /\ lastOp' = [Reply("start", 403, 0, {}) EXCEPT !.arg = email]
         /\ UNCHANGED <<sessions, nextSid, now>>
    ELSE /\ now <= MaxClock
         /\ nextSid <= MaxSessions
         /\ sessions' = ClosePrevious(sessions, user.username, now) \cup
                {SessionDoc(nextSid, user.username, user.email,
                            IF signInAt # NoTime THEN signInAt ELSE now, NoTime, now)}
         /\ nextSid' = nextSid + 1
         /\ now' = now + 1
         /\ lastOp' = [Reply("start", 201, nextSid, {}) EXCEPT !.arg = email]

\* the handler of POST /start, body: { email, signInAt? }; signInAt is NoTime
\* when absent
StartHandler(email, signInAt) ==
    LET found == {u \in users : u.email = Trim(email)}
    IN /\ IF email = Null \/ email = <<>>
          THEN /\ lastOp' = [Reply("start", 400, 0, {}) EXCEPT !.arg = email]
               /\ UNCHANGED <<sessions, nextSid, now>>
          ELSE IF found = {}
          THEN /\ lastOp' = [Reply("start", 404, 0, {}) EXCEPT !.arg = email]
               /\ UNCHANGED <<sessions, nextSid, now>>
          ELSE \E user \in found : StartFor(user, email, signInAt)
       /\ UNCHANGED <<users, nextUid, tombs, ledger, nextEid, uniqueIdx, games, nextGid, pc, loc>>

\* POST /start sent by any client but the component
StartLogin(email, signInAt) == StartHandler(email, signInAt) /\ UNCHANGED client

\* body: { sessionId, signOutAt? }; sid 0 stands for a missing sessionId.
\* The router never imports mongoose, so evaluating mongoose.Types throws a
\* ReferenceError and the catch answers 500 for every sessionId given.
EndHandler(sid, signOutAt) ==
    /\ lastOp' = Reply("end", IF sid = 0 THEN 400 ELSE 500, sid, {})
    /\ UNCHANGED <<users, nextUid, tombs, ledger, nextEid, sessions, nextSid, now,
                   uniqueIdx, games, nextGid, pc, loc>>

\* POST /end sent by any client but the component
EndLogin(sid, signOutAt) == EndHandler(sid, signOutAt) /\ UNCHANGED client

-----------------------------------------------------------------------------
(* api/routes/logins.js, second router (lines 284-542)                     *)

\* body: { username, email?, signInAt }: no earlier session is closed
StartLogin_v2(username, email, signInAt) ==
    LET found == {u \in users : u.username = username}
    IN /\ IF username = Null \/ username = <<>>
          THEN /\ lastOp' = Reply("start_v2", 400, 0, {})
               /\ UNCHANGED <<sessions, nextSid, now>>
          ELSE IF found = {}
          THEN /\ lastOp' = Reply("start_v2", 404, 0, {})
               /\ UNCHANGED <<sessions, nextSid, now>>
          ELSE IF \E u \in found : u.status # "approved"
          THEN /\ lastOp' = Reply("start_v2", 403, 0, {})
               /\ UNCHANGED <<sessions, nextSid, now>>
          ELSE /\ now <= MaxClock
               /\ nextSid <= MaxSessions
               /\ sessions' = sessions \cup
                    {SessionDoc(nextSid, username, email,
                                IF signInAt # NoTime THEN signInAt ELSE now, NoTime, now)}
               /\ nextSid' = nextSid + 1
               /\ now' = now + 1
               /\ lastOp' = [Reply("start_v2", 201, nextSid, {}) EXCEPT !.arg = email]
       /\ UNCHANGED <<users, nextUid, tombs, ledger, nextEid, uniqueIdx, client, games, nextGid, pc, loc>>

EndHandler_v2(sid, signOutAt) ==
    LET found == {x \in sessions : x.sid = sid}
    IN /\ IF sid = 0
          THEN /\ lastOp' = Reply("end_v2", 400, sid, {})
               /\ UNCHANGED <<sessions, now>>
          ELSE IF sid = BadId
          THEN \* findById rejects with a CastError, which the catch answers
               /\ lastOp' = Reply("end_v2", 500, sid, {})
               /\ UNCHANGED <<sessions, now>>
          ELSE IF found = {}
          THEN /\ lastOp' = Reply("end_v2", 404, sid, {})
               /\ UNCHANGED <<sessions, now>>
          ELSE /\ now <= MaxClock
               /\ sessions' = (sessions \ found) \cup
                    {[x EXCEPT !.signOutAt = IF signOutAt # NoTime THEN signOutAt ELSE now]
                        : x \in found}
               /\ now' = now + 1
               /\ lastOp' = Reply("end_v2", 200, sid, {})
       /\ UNCHANGED <<users, nextUid, tombs, ledger, nextEid, nextSid, uniqueIdx, games, nextGid, pc, loc>>

EndLogin_v2(sid, signOutAt) == EndHandler_v2(sid, signOutAt) /\ UNCHANGED client

-----------------------------------------------------------------------------
(* The UserSessionBar component (src/unnamed/part_002).  A handler runs    *)
(* from its guards to its finally block in one step, the POST it awaits    *)
(* included, so its locks and its loading flag are never seen set.         *)

\* a 2xx answer resolves the promise of apiClient.post, any other rejects it
Resolved(reply) == reply.status >= 200 /\ reply.status < 300

\* isValidObjectId(sid): the ids the server hands out are ObjectIds
isValidObjectId(sid) == sid # 0 /\ sid # BadId

\* the state after the try block of handleSignIn has run to its end
SignedIn(id, signInAt) ==
    [client EXCEPT !.sessionId = id, !.isSignedIn = TRUE, !.signInDateTime = signInAt,
                   !.userSession = TRUE, !.last = "signIn"]

\* the state after the statements that follow the await of
\* handleConfirmSignOut: local state cleared, onLogout called
SignedOut ==
    [client EXCEPT !.isSignedIn = FALSE, !.signInDateTime = NoTime, !.sessionId = 0,
                   !.userSession = FALSE, !.loggedOut = TRUE, !.last = "signOut"]

\* the state after the catch block of handleConfirmSignOut: an alert, and
\* nothing cleared
SignOutCaught == [client EXCEPT !.last = "signOut"]

\* handleSignIn with the email prop: POST /start with signInAt = new Date()
ClientSignIn(email) ==
    /\ ~client.loggedOut
    /\ ~(client.isSignedIn \/ client.sessionId # 0)
    /\ email # Null /\ email # <<>>
    /\ StartHandler(email, now)
    /\ client' = IF Resolved(lastOp') THEN SignedIn(lastOp'.sid, now)
                  ELSE [client EXCEPT !.last = "signIn"]

\* handleConfirmSignOut, from the confirm dialog or the 30 minute timer,
\* against the first router of logins.js
ClientSignOut ==
    /\ client.isSignedIn
    /\ IF isValidObjectId(client.sessionId)
       THEN /\ EndHandler(client.sessionId, now)
            /\ client' = IF Resolved(lastOp') THEN SignedOut ELSE SignOutCaught
       ELSE /\ client' = SignedOut
            /\ UNCHANGED <<users, nextUid, tombs, ledger, nextEid, sessions, nextSid, now,
                           uniqueIdx, lastOp, pc, loc, games, nextGid>>

\* handleConfirmSignOut against the second router of logins.js
ClientSignOut_v2 ==
    /\ client.isSignedIn
    /\ IF isValidObjectId(client.sessionId)
       THEN /\ EndHandler_v2(client.sessionId, now)
            /\ client' = IF Resolved(lastOp') THEN SignedOut ELSE SignOutCaught
       ELSE /\ client' = SignedOut
            /\ UNCHANGED <<users, nextUid, tombs, ledger, nextEid, sessions, nextSid, now,
                           uniqueIdx, lastOp, pc, loc, games, nextGid>>

\* handleConfirmSignOut when the POST never reaches the server
ClientSignOutOffline ==
    /\ client.isSignedIn
    /\ isValidObjectId(client.sessionId)
    /\ client' = SignOutCaught
    /\ UNCHANGED <<users, nextUid, tombs, ledger, nextEid, sessions, nextSid, now,
                   uniqueIdx, lastOp, pc, loc, games, nextGid>>

-----------------------------------------------------------------------------
(* POST /api/logins/start of the first router, one await at a time: the    *)
(* handler holds no lock, so requests interleave between the awaits        *)

\* User.findOne and the approval checks
StartFind(r, email, signInAt) ==
    LET found == {u \in users : u.email = Trim(email)}
    IN /\ pc[r] = "idle"
       /\ IF email = Null \/ email = <<>>
          THEN /\ lastOp' = [Reply("start", 400, 0, {}) EXCEPT !.arg = email]
               /\ UNCHANGED <<pc, loc>>
          ELSE IF found = {}
          THEN /\ lastOp' = [Reply("start", 404, 0, {}) EXCEPT !.arg = email]
               /\ UNCHANGED <<pc, loc>>
          ELSE \E user \in found :
                 IF ~isApprovedUser(user) \/ user.status = "blocked"
                 THEN /\ lastOp' = [Reply("start", 403, 0, {}) EXCEPT !.arg = email]
                      /\ UNCHANGED <<pc, loc>>
                 ELSE /\ pc' = [pc EXCEPT ![r] = "close"]
                      /\ loc' = [loc EXCEPT ![r] = [NoLoc EXCEPT !.userDoc = user,
                                                                !.user = email,
                                                                !.signInAt = signInAt]]
                      /\ lastOp' = lastOp
       /\ UNCHANGED <<users, nextUid, tombs, ledger, nextEid, sessions, nextSid, now,
                      uniqueIdx, client, games, nextGid>>

\* LoginSession.updateMany
StartClose(r) ==
    /\ pc[r] = "close"
    /\ now <= MaxClock
    /\ sessions' = ClosePrevious(sessions, loc[r].userDoc.username, now)
    /\ now' = now + 1
    /\ loc' = [loc EXCEPT ![r].tClose = now]
    /\ pc' = [pc EXCEPT ![r] = "create"]
    /\ UNCHANGED <<users, nextUid, tombs, ledger, nextEid, nextSid, uniqueIdx, client, games, nextGid, lastOp>>

\* LoginSession.create and the 201 response
StartCreate(r) ==
    /\ pc[r] = "create"
    /\ now <= MaxClock
    /\ nextSid <= MaxSessions
    /\ sessions' = sessions \cup
          {SessionDoc(nextSid, loc[r].userDoc.username, loc[r].userDoc.email,
                      IF loc[r].signInAt # NoTime THEN loc[r].signInAt ELSE now,
                      NoTime, now)}
    /\ nextSid' = nextSid + 1
    /\ now' = now + 1
    /\ loc' = [loc EXCEPT ![r].mine = nextSid]
    /\ pc' = [pc EXCEPT ![r] = "done"]
    /\ lastOp' = [Reply("start", 201, nextSid, {}) EXCEPT !.arg = loc[r].user]
    /\ UNCHANGED <<users, nextUid, tombs, ledger, nextEid, uniqueIdx, client, games, nextGid>>

-----------------------------------------------------------------------------
(* GET /api/admin/users of part_000, one await at a time                   *)

DocsAtInsert_recheck(docs, us) ==
    LET Fresh(d) == normUsernameKey(d.username) \notin realUsernameLowerSet(us)
    IN SelectSeq(docs, Fresh)

DocsAtInsert_untombed(docs, us) ==
    LET Live(d) == normUsernameKey(d.username) \notin {normUsernameKey(t) : t \in tombs}
    IN SelectSeq(docs, Live)

\* the documents handed to insertMany are those computed from the reads
DocsAtInsert(docs, us) == docs

\* User.find({}) for the dedupe sets
RosterReadUsers(r, status) ==
    /\ pc[r] = "idle"
    /\ loc' = [loc EXCEPT ![r] = [NoLoc EXCEPT !.allUsers = findAllUsers(users, status),
                                               !.status = status]]
    /\ pc' = [pc EXCEPT ![r] = "deleted"]
    /\ UNCHANGED <<users, nextUid, tombs, ledger, nextEid, sessions, nextSid, now,
                   uniqueIdx, client, games, nextGid, lastOp>>

\* DeletedUsername.find({})
RosterReadDeleted(r) ==
    /\ pc[r] = "deleted"
    /\ loc' = [loc EXCEPT ![r].deletedRows = tombs]
    /\ pc' = [pc EXCEPT ![r] = "ledger"]
    /\ UNCHANGED <<users, nextUid, tombs, ledger, nextEid, sessions, nextSid, now,
                   uniqueIdx, client, games, nextGid, lastOp>>

\* GameEntry.aggregate and the loops that build docs
RosterReadLedger(r, order) ==
    LET docs == RosterDocs(order, loc[r].allUsers, loc[r].deletedRows)
    IN /\ pc[r] = "ledger"
       /\ loc' = [loc EXCEPT ![r].docs = docs]
       /\ pc' = [pc EXCEPT ![r] = IF docs = <<>> THEN "respond" ELSE "insert"]
       /\ UNCHANGED <<users, nextUid, tombs, ledger, nextEid, sessions, nextSid, now,
                      uniqueIdx, client, games, nextGid, lastOp>>

\* User.insertMany inside its try / catch
RosterInsert(r, failing) ==
    LET docs == DocsAtInsert(loc[r].docs, users)
        ins == InsertMany(users, nextUid, docs, 1, failing, uniqueIdx)
    IN /\ pc[r] = "insert"
       /\ failing \subseteq 1..Len(docs)
       /\ ins.nextUid <= MaxUsers + 1
       /\ users' = ins.users
       /\ nextUid' = ins.nextUid
       /\ loc' = [loc EXCEPT ![r].insertErr = ins.err, ![r].mine = nextUid]
       /\ pc' = [pc EXCEPT ![r] = "respond"]
       /\ UNCHANGED <<tombs, ledger, nextEid, sessions, nextSid, now, uniqueIdx, client, games, nextGid, lastOp>>

\* loadUsersForResponse and the response
RosterRespond(r) ==
    /\ pc[r] = "respond"
    /\ \E byUser \in sessionsAgg(sessions, usernamesOf(
                               loadUsersForResponse(users, loc[r].status))) :
         lastOp' = [RosterReply("list", loadUsersForResponse(users, loc[r].status),
                                {}, loc[r].insertErr)
                      EXCEPT !.body = enhanced(loadUsersForResponse(users, loc[r].status),
                                               ledger, byUser)]
    /\ pc' = [pc EXCEPT ![r] = "done"]
    /\ UNCHANGED <<users, nextUid, tombs, ledger, nextEid, sessions, nextSid, now,
                   uniqueIdx, client, games, nextGid, loc>>

-----------------------------------------------------------------------------
(* api/routes/games.js (src/unnamed/part_000, lines 1-442)                 *)

\* a number of the handler: <<>> is NaN, <<n>> the number n
NaN == <<>>

IsDigitChar(c) == c \in {"0", "1", "2", "3", "4", "5", "6", "7", "8", "9"}

DigitVal(c) ==
    CHOOSE d \in 0..9 : <<"0", "1", "2", "3", "4", "5", "6", "7", "8", "9">>[d + 1] = c

\* the value of a string of decimal digits
RECURSIVE DecVal(_)
DecVal(str) ==
    IF str = <<>> THEN 0
    ELSE DecVal(SubSeq(str, 1, Len(str) - 1)) * 10 + DigitVal(str[Len(str)])

\* Number(req.query.year) of a query value that is absent (undefined) or a
\* string of digits, spaces and letters: undefined is NaN, a string is
\* trimmed, the empty string is 0, digits are their value, anything else NaN
Number(v) ==
    IF v = Null THEN NaN
    ELSE IF Trim(v) = <<>> THEN <<0>>
    ELSE IF \A i \in 1..Len(Trim(v)) : IsDigitChar(Trim(v)[i]) THEN <<DecVal(Trim(v))>>
    ELSE NaN

Digit(d) == <<"0", "1", "2", "3", "4", "5", "6", "7", "8", "9">>[d + 1]

\* String(n) of a natural number
RECURSIVE NumStr(_)
NumStr(n) == IF n < 10 THEN <<Digit(n)>> ELSE NumStr(n \div 10) \o <<Digit(n % 10)>>

\* .padStart(2, "0")
padStart2(str) == IF Len(str) < 2 THEN <<"0">> \o str ELSE str

\* Number.isFinite(year) && Number.isFinite(month) && month >= 1 && month <= 12
HasMonthFilter(year, month) ==
    year # NaN /\ month # NaN /\ month[1] >= 1 /\ month[1] <= 12

\* `${year}-${mm}`
prefix(year, month) == NumStr(year[1]) \o <<"-">> \o padStart2(NumStr(month[1]))

\* { $regex: `^${prefix}` }
StartsWith(str, pre) == Len(str) >= Len(pre) /\ SubSeq(str, 1, Len(pre)) = pre

\* dateFilter applied to one entry
dateFilter(e, year, month) ==
    HasMonthFilter(year, month) => StartsWith(e.date, prefix(year, month))

\* { $regex: q, $options: "i" } for a q of letters
NameMatches(q, name) ==
    \E i \in 1..(Len(name) - Len(q) + 1) :
        ToLower(SubSeq(name, i, i + Len(q) - 1)) = ToLower(q)

GameDoc(id, name, coinsRecharged) ==
    [id |-> id, name |-> name, coinsRecharged |-> coinsRecharged]

\* one row of the $group by (gameName, username, date)
GroupTotals(matched, k) ==
    LET group == {e \in matched : <<e.gameName, e.username, e.date>> = k}
    IN [gameName |-> k[1], username |-> k[2], date |-> k[3],
        freeplay |-> SumAmt({e \in group : e.type = "freeplay"}),
        deposit  |-> SumAmt({e \in group : e.type = "deposit"}),
        redeem   |-> SumAmt({e \in group : e.type = "redeem"})]

\* GameEntry.aggregate([$match, $group])
gameTotals(entries, gameNames, year, month) ==
    LET matched == {e \in entries : e.gameName \in gameNames /\ dateFilter(e, year, month)}
    IN {GroupTotals(matched, k) :
            k \in {<<e.gameName, e.username, e.date>> : e \in matched}}

perDayNet_clamped(t) ==
    IF t.redeem - t.deposit - t.freeplay < 0 THEN 0 ELSE t.redeem - t.deposit - t.freeplay

\* redeem - deposit - freeplay of one group
perDayNet(t) == t.redeem - t.deposit - t.freeplay

RECURSIVE SumField(_, _)
SumField(rows, field) ==
    IF rows = {} THEN 0
    ELSE LET t == CHOOSE x \in rows : TRUE IN t[field] + SumField(rows \ {t}, field)

RECURSIVE SumNet(_)
SumNet(rows) ==
    IF rows = {} THEN 0
    ELSE LET t == CHOOSE x \in rows : TRUE IN perDayNet(t) + SumNet(rows \ {t})

\* totalsByGame[name] after the loop over the groups (zeros without a group)
totalsByGame(totals, name) ==
    LET mine == {t \in totals : t.gameName = name}
    IN [freeplay |-> SumField(mine, "freeplay"),
        deposit  |-> SumField(mine, "deposit"),
        redeem   |-> SumField(mine, "redeem"),
        net      |-> SumNet(mine)]

FloorAtZero_none(x) == x

\* if (totalCoins < 0) totalCoins = 0
FloorAtZero(x) == IF x < 0 THEN 0 ELSE x

\* the games merged with their totals
enriched(gs, totals) ==
    {LET t == totalsByGame(totals, g.name)
     IN [id |-> g.id, name |-> g.name,
         freeplay |-> t.freeplay, deposit |-> t.deposit, redeem |-> t.redeem,
         totalRecharged |-> t.deposit, coinsRecharged |-> g.coinsRecharged,
         totalCoins |-> FloorAtZero(g.coinsRecharged + t.net)]
     : g \in gs}

exists_never(gs, name) == FALSE

\* Game.findOne({ name }): a game of exactly this name
exists(gs, name) == \E g \in gs : g.name = name

\* POST /api/games, body { name, coinsRecharged = 0 }
CreateGame(name, coinsRecharged) ==
    /\ IF name = Null \/ name = <<>>
       THEN /\ lastOp' = [Reply("createGame", 400, 0, {}) EXCEPT !.arg = name]
            /\ UNCHANGED <<games, nextGid>>
       ELSE IF exists(games, name)
       THEN /\ lastOp' = [Reply("createGame", 409, 0, {}) EXCEPT !.arg = name]
            /\ UNCHANGED <<games, nextGid>>
       ELSE /\ nextGid <= MaxGames
            /\ games' = games \cup {GameDoc(nextGid, name, coinsRecharged)}
            /\ nextGid' = nextGid + 1
            /\ lastOp' = [Reply("createGame", 201, 0, {nextGid}) EXCEPT !.arg = name]
    /\ UNCHANGED <<users, nextUid, tombs, ledger, nextEid, sessions, nextSid, now,
                   uniqueIdx, client, pc, loc>>

\* PUT /api/games/:id, body { coinsRecharged } a number
UpdateGame(id, coinsRecharged) ==
    /\ IF \A g \in games : g.id # id
       THEN /\ lastOp' = Reply("updateGame", 404, 0, {})
            /\ games' = games
       ELSE /\ games' = {IF g.id = id THEN [g EXCEPT !.coinsRecharged = coinsRecharged]
                         ELSE g : g \in games}
            /\ lastOp' = Reply("updateGame", 200, 0, {id})
    /\ UNCHANGED <<users, nextUid, tombs, ledger, nextEid, sessions, nextSid, now,
                   uniqueIdx, client, pc, loc, nextGid>>

\* DELETE /api/games/:id
DeleteGame(id) ==
    /\ IF \A g \in games : g.id # id
       THEN /\ lastOp' = Reply("deleteGame", 404, 0, {})
            /\ games' = games
       ELSE /\ \E game \in {g \in games : g.id = id} : games' = games \ {game}
            /\ lastOp' = Reply("deleteGame", 200, 0, {id})
    /\ UNCHANGED <<users, nextUid, tombs, ledger, nextEid, sessions, nextSid, now,
                   uniqueIdx, client, pc, loc, nextGid>>

\* GET /api/games?q=&year=&month= (the response's order is left out);
\* qYear and qMonth are req.query.year and req.query.month
ListGames(q, qYear, qMonth) ==
    /\ LET year == Number(qYear)
           month == Number(qMonth)
       IN IF Trim(q) # <<>>
          THEN lastOp' = [Reply("games", 200, 0, {})
                           EXCEPT !.arg = Trim(q),
                                  !.query = <<qYear, qMonth>>,
                                  !.body = {[name |-> g.name] :
                                               g \in {x \in games : NameMatches(Trim(q), x.name)}}]
          ELSE lastOp' = [Reply("games", 200, 0, {g.id : g \in games})
                           EXCEPT !.arg = IF HasMonthFilter(year, month)
                                          THEN prefix(year, month) ELSE <<>>,
                                  !.query = <<qYear, qMonth>>,
                                  !.body = enriched(games,
                                               gameTotals(ledger, {g.name : g \in games},
                                                          year, month))]
    /\ UNCHANGED <<users, nextUid, tombs, ledger, nextEid, sessions, nextSid, now,
                   uniqueIdx, client, pc, loc, games, nextGid>>

CharRank(c) ==
    CHOOSE i \in 1..11 :
        <<"-", "0", "1", "2", "3", "4", "5", "6", "7", "8", "9">>[i] = c

\* order of two date strings under .sort({ date: 1 })
RECURSIVE StrLess(_, _)
StrLess(a, b) ==
    IF b = <<>> THEN FALSE
    ELSE IF a = <<>> THEN TRUE
    ELSE IF Head(a) = Head(b) THEN StrLess(Tail(a), Tail(b))
    ELSE CharRank(Head(a)) < CharRank(Head(b))

Precedes_byId(x, e) == x.eid < e.eid

\* the order of .sort({ date: 1, _id: 1 })
Precedes(x, e) == StrLess(x.date, e.date) \/ (x.date = e.date /\ x.eid < e.eid)

\* GameEntry.find(...).sort({ date: 1, _id: 1 })
sortByDate(entries) ==
    CHOOSE seq \in Orderings(entries) :
        \A i, j \in 1..Len(seq) : i < j => Precedes(seq[i], seq[j])

\* entries.map with the variable running carried from row to row
RECURSIVE historyFrom(_, _, _)
historyFrom(entries, i, running) ==
    IF i > Len(entries) THEN <<>>
    ELSE <<[id |-> entries[i].eid, date |-> entries[i].date, amount |-> Amt(entries[i]),
            beforeCoins |-> running, afterCoins |-> running + Amt(entries[i])]>>
            \o historyFrom(entries, i + 1, running + Amt(entries[i]))

\* the rows of the history in the order of the response
history(entries) == historyFrom(sortByDate(entries), 1, 0)

\* the elements of a sequence
Range(seq) == {seq[i] : i \in 1..Len(seq)}

\* GET /api/games/:id/recharge-history?year=&month=
RechargeHistory(id, qYear, qMonth) ==
    /\ IF \A g \in games : g.id # id
       THEN lastOp' = Reply("history", 404, 0, {})
       ELSE \E game \in {g \in games : g.id = id} :
              lastOp' = [Reply("history", 200, 0, {id})
                           EXCEPT !.arg = game.name,
                                  !.query = <<qYear, qMonth>>,
                                  !.list = history({e \in ledger :
                                                      /\ e.gameName = game.name
                                                      /\ e.type = "deposit"
                                                      /\ dateFilter(e, Number(qYear),
                                                                    Number(qMonth))}),
                                  !.body = Range(history({e \in ledger :
                                                      /\ e.gameName = game.name
                                                      /\ e.type = "deposit"
                                                      /\ dateFilter(e, Number(qYear),
                                                                    Number(qMonth))}))]
    /\ UNCHANGED <<users, nextUid, tombs, ledger, nextEid, sessions, nextSid, now,
                   uniqueIdx, client, pc, loc, games, nextGid>>

-----------------------------------------------------------------------------
(* DELETE /api/admin/users/:id of both handlers, one await at a time: any  *)
(* await can reject, and the catch then answers 500                        *)

UpsertTombstone_skip(ts, key) == ts

\* DeletedUsername.updateOne({ username: key }, { $set: ... }, { upsert: true })
UpsertTombstone(ts, key) == ts \cup {key}

\* the documents a delete's filter on username selects
DeleteMatches(handler, virtual, username, stored) ==
    IF handler = "part_000" /\ virtual
    THEN RxMatches(username, stored)
    ELSE stored = username

\* id.startsWith("virtual:"): the name is trimmed and must not be empty
DeleteBeginVirtual(r, handler, name) ==
    /\ pc[r] = "idle"
    /\ IF Trim(name) = <<>>
       THEN /\ lastOp' = [Reply("delete", 400, 0, {}) EXCEPT !.arg = Trim(name)]
            /\ UNCHANGED <<pc, loc>>
       ELSE /\ loc' = [loc EXCEPT ![r] = [NoLoc EXCEPT !.username = Trim(name),
                                                       !.virtual = TRUE,
                                                       !.handler = handler]]
            /\ pc' = [pc EXCEPT ![r] = "tombstone"]
            /\ lastOp' = lastOp
    /\ UNCHANGED <<users, nextUid, tombs, ledger, nextEid, sessions, nextSid, now,
                   uniqueIdx, client, games, nextGid>>

\* User.findById(id); an account with an empty username skips to deleteOne
DeleteBeginById(r, handler, id) ==
    LET found == {u \in users : u.id = id}
    IN /\ pc[r] = "idle"
       /\ IF found = {}
          THEN /\ lastOp' = Reply("delete", 404, 0, {})
               /\ UNCHANGED <<pc, loc>>
          ELSE /\ loc' = [loc EXCEPT ![r] =
                            [NoLoc EXCEPT !.username =
                                            TrimOrEmpty((CHOOSE u \in found : TRUE).username),
                                          !.id = id, !.handler = handler]]
               /\ pc' = [pc EXCEPT ![r] =
                            IF TrimOrEmpty((CHOOSE u \in found : TRUE).username) # <<>>
                            THEN "tombstone" ELSE "user"]
               /\ lastOp' = lastOp
       /\ UNCHANGED <<users, nextUid, tombs, ledger, nextEid, sessions, nextSid, now,
                      uniqueIdx, client, games, nextGid>>

\* await DeletedUsername.updateOne: part_000 stores the lower-cased key
DeleteTombstone(r) ==
    /\ pc[r] = "tombstone"
    /\ tombs' = UpsertTombstone(tombs, IF loc[r].handler = "part_000"
                                       THEN normUsernameKey(loc[r].username)
                                       ELSE loc[r].username)
    /\ pc' = [pc EXCEPT ![r] = "sessions"]
    /\ UNCHANGED <<users, nextUid, ledger, nextEid, sessions, nextSid, now, uniqueIdx, client, games, nextGid,
                   lastOp, loc>>

\* await LoginSession.deleteMany; the virtual branch of adminUsers.js ends here
DeleteSessions(r) ==
    LET gone == {x \in sessions : DeleteMatches(loc[r].handler, loc[r].virtual,
                                                loc[r].username, x.username)}
    IN /\ pc[r] = "sessions"
       /\ sessions' = sessions \ gone
       /\ loc' = [loc EXCEPT ![r].purged = loc[r].purged \/ gone # {}]
       /\ IF loc[r].handler = "part_000"
          THEN /\ pc' = [pc EXCEPT ![r] = "entries"]
               /\ lastOp' = lastOp
          ELSE IF loc[r].virtual
          THEN /\ pc' = [pc EXCEPT ![r] = "idle"]
               /\ lastOp' = [Reply("delete", 200, 0, {}) EXCEPT !.arg = loc[r].username]
          ELSE /\ pc' = [pc EXCEPT ![r] = "user"]
               /\ lastOp' = lastOp
       /\ UNCHANGED <<users, nextUid, tombs, ledger, nextEid, nextSid, now, uniqueIdx, client, games, nextGid>>

\* await GameEntry.deleteMany (part_000 only)
DeleteEntries(r) ==
    LET gone == {e \in ledger : DeleteMatches(loc[r].handler, loc[r].virtual,
                                              loc[r].username, e.username)}
    IN /\ pc[r] = "entries"
       /\ ledger' = ledger \ gone
       /\ loc' = [loc EXCEPT ![r].purged = loc[r].purged \/ gone # {}]
       /\ pc' = [pc EXCEPT ![r] = "user"]
       /\ UNCHANGED <<users, nextUid, tombs, nextEid, sessions, nextSid, now, uniqueIdx, client, games, nextGid,
                      lastOp>>

\* await User.deleteOne and the 200 response
DeleteUser(r) ==
    LET found == IF loc[r].virtual
                 THEN {u \in users : RxMatches(loc[r].username, u.username)}
                 ELSE {u \in users : u.id = loc[r].id}
    IN /\ pc[r] = "user"
       /\ IF found = {} THEN users' = users
          ELSE \E u \in found : users' = users \ {u}
       /\ loc' = [loc EXCEPT ![r].purged = loc[r].purged \/ found # {}]
       /\ pc' = [pc EXCEPT ![r] = "idle"]
       /\ lastOp' = [Reply("delete", 200, 0, IF loc[r].virtual THEN {} ELSE {loc[r].id})
                        EXCEPT !.arg = loc[r].username]
       /\ UNCHANGED <<nextUid, tombs, ledger, nextEid, sessions, nextSid, now, uniqueIdx, client, games, nextGid>>

\* the pending await rejects: catch answers 500, what was done stays done
DeleteFails(r) ==
    /\ pc[r] \in {"tombstone", "sessions", "entries", "user"}
    /\ pc' = [pc EXCEPT ![r] = "idle"]
    /\ lastOp' = [Reply("delete", 500, 0, {}) EXCEPT !.arg = loc[r].username]
    /\ UNCHANGED <<users, nextUid, tombs, ledger, nextEid, sessions, nextSid, now,
                   uniqueIdx, client, games, nextGid, loc>>

-----------------------------------------------------------------------------
(* Specifications *)

\* emails a client may send to /start
StartEmails == {Null, RealEmail} \cup {u.email : u \in users}

\* the roster of part_000 with requests served one at a time
NextRoster ==
    \/ \E in \in LedgerInputs : AppendLedger(in)
    \/ \E status \in StatusParams, order \in Orderings(gameUsernames(ledger)),
          failing \in SUBSET (1..MaxLedger) : ListUsers(status, order, failing)
    \/ \E name \in Names : ApproveVirtual(name)
    \/ \E id \in 0..MaxUsers : ApproveById(id)
    \/ \E name \in Names : DeleteVirtual(name)
    \/ \E id \in 0..MaxUsers : DeleteById(id)

SpecRoster == Init /\ [][NextRoster]_vars

\* the roster of src/api/routes/adminUsers.js with requests served one at a time
NextRoster_v1 ==
    \/ \E in \in LedgerInputs_v1 : AppendLedger(in)
    \/ \E status \in StatusParams, order \in Orderings(gameUsernames_v1(ledger)),
          failing \in SUBSET (1..MaxLedger) : ListUsers_v1(status, order, failing)
    \/ \E id \in 0..MaxUsers : BlockById_v1(id)
    \/ \E name \in Names : DeleteVirtual_v1(name)
    \/ \E id \in 0..MaxUsers : DeleteById_v1(id)

SpecRoster_v1 == Init /\ [][NextRoster_v1]_vars

\* both roster handlers, their inserts failing at the store's whim
NextLists ==
    \/ \E in \in LedgerInputs_v1 : AppendLedger(in)
    \/ \E status \in {"", "pending"}, order \in Orderings(gameUsernames(ledger)),
          failing \in SUBSET (1..MaxLedger) : ListUsers(status, order, failing)
    \/ \E status \in {"", "pending"}, order \in Orderings(gameUsernames_v1(ledger)),
          failing \in SUBSET (1..MaxLedger) : ListUsers_v1(status, order, failing)
    \/ \E name \in {<<"A">>} : DeleteVirtual(name)
    \/ \E name \in {<<"A">>} : DeleteVirtual_v1(name)

SpecLists == Init /\ [][NextLists]_vars

\* sessions: the first login router with approve and block of adminUsers.js
NextSession ==
    \/ \E in \in [username : {<<"a">>, <<"A">>}, createdBy : {Null}] : AppendLedger(in)
    \/ \E order \in Orderings(gameUsernames_v1(ledger)) : ListUsers_v1("", order, {})
    \/ \E id \in 0..MaxUsers : ApproveById_v1(id, <<>>)
    \/ \E id \in 0..MaxUsers : BlockById_v1(id)
    \/ \E email \in StartEmails, signInAt \in {NoTime, 1} : StartLogin(email, signInAt)
    \/ \E sid \in EndIds : EndLogin(sid, NoTime)

SpecSession == Init /\ [][NextSession]_vars

\* sessions: the second login router with approve and block of adminUsers.js
NextSession_v2 ==
    \/ \E in \in [username : {<<"a">>}, createdBy : {Null}] : AppendLedger(in)
    \/ \E order \in Orderings(gameUsernames_v1(ledger)) : ListUsers_v1("", order, {})
    \/ \E id \in 0..MaxUsers, email \in {<<>>, RealEmail} : ApproveById_v1(id, email)
    \/ \E id \in 0..MaxUsers : BlockById_v1(id)
    \/ \E u \in {Null, <<"a">>, <<"A">>} : StartLogin_v2(u, Null, NoTime)
    \/ \E sid \in EndIds : EndLogin_v2(sid, NoTime)

SpecSession_v2 == Init /\ [][NextSession_v2]_vars

\* two /start requests in flight at once
NextStartRace ==
    \/ \E in \in [username : {<<"a">>}, createdBy : {Null}] : AppendLedger(in)
    \/ \E order \in Orderings(gameUsernames(ledger)) : ListUsers("", order, {})
    \/ \E id \in 1..MaxUsers : ApproveById(id)
    \/ \E r \in Reqs, email \in StartEmails : StartFind(r, email, NoTime)
    \/ \E r \in Reqs : StartClose(r)
    \/ \E r \in Reqs : StartCreate(r)

SpecStartRace == Init /\ [][NextStartRace]_vars

\* two roster requests in flight at once
NextRosterRace ==
    \/ \E in \in [username : {<<"A">>, <<"a">>, <<"a", "$">>}, createdBy : {Null}] :
          AppendLedger(in)
    \/ \E r \in Reqs : RosterReadUsers(r, "")
    \/ \E r \in Reqs : RosterReadDeleted(r)
    \/ \E r \in Reqs, order \in Orderings(gameUsernames(ledger)) : RosterReadLedger(r, order)
    \/ \E r \in Reqs : RosterInsert(r, {})
    \/ \E r \in Reqs : RosterRespond(r)

SpecRosterRace == Init /\ [][NextRosterRace]_vars

\* the session join of both roster handlers over sessions that approve and
\* /start left behind, the client choosing signInAt
NextJoin ==
    \/ \E in \in [username : {<<"a">>, <<"A">>}, createdBy : {Null}] : AppendLedger(in)
    \/ \E order \in Orderings(gameUsernames(ledger)) : ListUsers("", order, {})
    \/ \E order \in Orderings(gameUsernames_v1(ledger)) : ListUsers_v1("", order, {})
    \/ \E id \in 1..MaxUsers : ApproveById_v1(id, <<>>)
    \/ \E email \in StartEmails, signInAt \in {NoTime, 1} : StartLogin(email, signInAt)
    \/ \E sid \in 1..MaxSessions : EndLogin_v2(sid, NoTime)

SpecJoin == Init /\ [][NextJoin]_vars

Handlers == {"part_000", "adminUsers.js"}

\* a delete of either handler in flight among the other requests, any await
\* failing
NextDelete ==
    \/ \E in \in [username : {<<"a">>, <<" ", "a">>}, createdBy : {Null}] : AppendLedger(in)
    \/ \E order \in Orderings(gameUsernames(ledger)) : ListUsers("", order, {})
    \/ \E id \in 1..MaxUsers : ApproveById_v1(id, <<>>)
    \/ \E r \in {"r1"}, h \in Handlers, name \in {<<"A">>, <<" ">>} :
          DeleteBeginVirtual(r, h, name)
    \/ \E r \in {"r1"}, h \in Handlers, id \in 0..MaxUsers : DeleteBeginById(r, h, id)
    \/ \E r \in {"r1"} : DeleteTombstone(r)
    \/ \E r \in {"r1"} : DeleteSessions(r)
    \/ \E r \in {"r1"} : DeleteEntries(r)
    \/ \E r \in {"r1"} : DeleteUser(r)
    \/ \E r \in {"r1"} : DeleteFails(r)

SpecDelete == Init /\ [][NextDelete]_vars

\* entries of one game by two users on two days
GameEntries ==
    {GameEntryDoc(0, u, Null, type, amount, NoAmount, <<"L">>, date) :
        u \in {<<"b">>, <<"c">>}, type \in {"deposit", "redeem", "freeplay"},
        amount \in {40, 100}, date \in {March5, April1}}

Y2024 == <<"2", "0", "2", "4">>

\* ?year=&month= of a request: absent, March 2024, April 2024
MonthParams == {<<Null, Null>>, <<Y2024, <<"3">>>>, <<Y2024, <<"4">>>>}

\* the games routes over a ledger of entries
NextGames ==
    \/ \E e \in GameEntries : AppendEntry(e)
    \/ \E name \in {Null, <<"L">>, <<"M">>}, coinsRecharged \in {0, 50} :
          CreateGame(name, coinsRecharged)
    \/ \E id \in 1..MaxGames : UpdateGame(id, 50)
    \/ \E q \in {<<>>, <<"l">>}, ym \in MonthParams : ListGames(q, ym[1], ym[2])
    \/ \E id \in 1..MaxGames, ym \in MonthParams : RechargeHistory(id, ym[1], ym[2])

SpecGames == Init /\ [][NextGames]_vars

\* entries of two spellings of one name, with and without amountFinal
TotalsEntries ==
    {GameEntryDoc(0, u, Null, type, amount, amountFinal, <<"L">>, March5) :
        u \in {<<"A", " ">>, <<"a">>}, type \in {"deposit", "redeem", "freeplay"},
        amount \in {30, 100}, amountFinal \in {NoAmount, 0, 50}}

\* every totals computation of part_000 over a ledger of entries
NextTotals ==
    \/ \E e \in TotalsEntries : AppendEntry(e)
    \/ \E order \in Orderings(gameUsernames(ledger)) : ListUsers("", order, {})
    \/ CreateGame(<<"L">>, 0)
    \/ ListGames(<<>>, Null, Null)
    \/ \E id \in 1..MaxGames : RechargeHistory(id, Null, Null)

SpecTotals == Init /\ [][NextTotals]_vars

\* deposits and redemptions of one game in March and in April
MonthEntries ==
    {GameEntryDoc(0, <<"b">>, Null, type, 40, NoAmount, <<"L">>, date) :
        type \in {"deposit", "redeem"}, date \in {March5, April1}}

\* what a client can put in ?year= and in ?month=
YearValues == {Null, <<>>, Y2024, <<"x">>}

MonthValues == {Null, <<>>, <<"3">>, <<"0", "3">>, <<"4">>, <<"1", "3">>, <<"0">>, <<"x">>}

\* the two routes that take ?year=&month= over a ledger of dated entries
NextMonth ==
    \/ \E e \in MonthEntries : AppendEntry(e)
    \/ CreateGame(<<"L">>, 0)
    \/ \E qYear \in YearValues, qMonth \in MonthValues : ListGames(<<>>, qYear, qMonth)
    \/ \E id \in 1..MaxGames, qYear \in YearValues, qMonth \in MonthValues :
          RechargeHistory(id, qYear, qMonth)

SpecMonth == Init /\ [][NextMonth]_vars

\* roster requests of part_000 in flight at once, and those of adminUsers.js
\* served whole
NextEmails ==
    \/ \E in \in [username : {<<"A">>, <<"a">>, <<"a", "$">>}, createdBy : {Null}] :
          AppendLedger(in)
    \/ \E r \in Reqs : RosterReadUsers(r, "")
    \/ \E r \in Reqs : RosterReadDeleted(r)
    \/ \E r \in Reqs, order \in Orderings(gameUsernames(ledger)) : RosterReadLedger(r, order)
    \/ \E r \in Reqs : RosterInsert(r, {})
    \/ \E r \in Reqs : RosterRespond(r)
    \/ \E order \in Orderings(gameUsernames_v1(ledger)) : ListUsers_v1("", order, {})

SpecEmails == Init /\ [][NextEmails]_vars

\* synthesis, approve and block of both handlers
NextStatus ==
    \/ \E in \in [username : {<<"a">>, <<"A">>}, createdBy : {Null}] : AppendLedger(in)
    \/ \E order \in Orderings(gameUsernames(ledger)) : ListUsers("", order, {})
    \/ \E order \in Orderings(gameUsernames_v1(ledger)) : ListUsers_v1("", order, {})
    \/ \E name \in {<<"a">>, <<" ">>} : ApproveVirtual(name)
    \/ \E id \in 0..MaxUsers : ApproveById(id)
    \/ \E id \in 0..MaxUsers, email \in {<<>>, RealEmail} : ApproveById_v1(id, email)
    \/ \E id \in 0..MaxUsers : BlockById_v1(id)

SpecStatus == Init /\ [][NextStatus]_vars

\* the Game collection under create, update and delete
NextNames ==
    \/ \E name \in {Null, <<"L">>, <<"l">>, <<"M">>}, coinsRecharged \in {0, 50} :
          CreateGame(name, coinsRecharged)
    \/ \E id \in 1..MaxGames, coinsRecharged \in {0, 50} : UpdateGame(id, coinsRecharged)
    \/ \E id \in 1..MaxGames : DeleteGame(id)
    \/ \E q \in {<<>>, <<"l">>} : ListGames(q, Null, Null)

SpecNames == Init /\ [][NextNames]_vars

\* a roster request of part_000 in flight while virtual deletes are served
NextDeleteRace ==
    \/ \E in \in [username : {<<"a">>, <<"A">>, <<"a", "$">>}, createdBy : {Null}] :
          AppendLedger(in)
    \/ \E r \in {"r1"}, status \in {"", "pending"} : RosterReadUsers(r, status)
    \/ \E r \in {"r1"} : RosterReadDeleted(r)
    \/ \E r \in {"r1"}, order \in Orderings(gameUsernames(ledger)) :
          RosterReadLedger(r, order)
    \/ \E r \in {"r1"} : RosterInsert(r, {})
    \/ \E r \in {"r1"} : RosterRespond(r)
    \/ \E name \in {<<"A">>, <<" ">>} : DeleteVirtual(name)

SpecDeleteRace == Init /\ [][NextDeleteRace]_vars

\* the component of one user against the login routes, the user approved
\* and blocked by the admin
NextClient ==
    \/ \E in \in [username : {<<"a">>}, createdBy : {Null}] : AppendLedger(in)
    \/ \E order \in Orderings(gameUsernames_v1(ledger)) : ListUsers_v1("", order, {})
    \/ \E id \in 1..MaxUsers : ApproveById_v1(id, <<>>)
    \/ \E id \in 1..MaxUsers : BlockById_v1(id)
    \/ \E id \in 1..MaxUsers : DeleteById_v1(id)
    \/ \E email \in StartEmails : ClientSignIn(email)
    \/ ClientSignOut
    \/ ClientSignOut_v2
    \/ ClientSignOutOffline

SpecClient == Init /\ [][NextClient]_vars

\* listings of both handlers with every ?status=, among approves and blocks
NextFilter ==
    \/ \E in \in [username : {<<"a">>, <<"A">>, <<"b">>}, createdBy : {Null}] :
          AppendLedger(in)
    \/ \E status \in StatusParams, order \in Orderings(gameUsernames(ledger)),
          failing \in {{}, {1}} : ListUsers(status, order, failing)
    \/ \E status \in StatusParams, order \in Orderings(gameUsernames_v1(ledger)),
          failing \in {{}, {1}} : ListUsers_v1(status, order, failing)
    \/ \E id \in 1..MaxUsers : ApproveById(id)
    \/ \E id \in 1..MaxUsers : BlockById_v1(id)
    \/ \E id \in 1..MaxUsers : DeleteById_v1(id)

SpecFilter == Init /\ [][NextFilter]_vars

Spec == SpecRoster

-----------------------------------------------------------------------------
(* Properties *)

UserKeys(us) == {normUsernameKey(u.username) : u \in us}

TombKeys(ts) == {normUsernameKey(t) : t \in ts}

IsListOp(op) == op \in {"list", "list_v1"}

OpenOf(username) == {x \in sessions : x.username = username /\ IsOpen(x)}

\* C1: a roster pass inserts no account whose normalized username is the
\* normalized form of a tombstoned username, whatever the letter case of the
\* ledger entry or of the name that was deleted.
C1_TombstoneBlocksSynthesis ==
    IsListOp(lastOp.op) =>
        \A u \in users :
            u.id \in lastOp.inserted => normUsernameKey(u.username) \notin TombKeys(tombs)

\* C2: for every username at most one session has signOutAt = null, after any
\* sequence of start, approve and end requests.
C2_AtMostOneOpenSession ==
    \A x, y \in sessions :
        (x.username = y.username /\ IsOpen(x) /\ IsOpen(y)) => x = y

\* C3: right after a successful POST /logins/start the session it created is
\* the only open session of that username; every earlier one has signOutAt set.
C3_StartLeavesOneOpen ==
    (lastOp.op = "start" /\ lastOp.status = 201) =>
        \E s \in sessions :
            /\ s.sid = lastOp.sid
            /\ IsOpen(s)
            /\ \A x \in sessions : (x.username = s.username /\ x # s) => ~IsOpen(x)

\* C3 witness: a start has just succeeded for a user whose earlier session,
\* itself opened by a start (its signInAt came from the client), got closed.
C3_Witness ==
    /\ lastOp.op = "start"
    /\ lastOp.status = 201
    /\ \E s, x \in sessions :
          /\ s.sid = lastOp.sid
          /\ IsOpen(s)
          /\ x.username = s.username
          /\ x.sid < s.sid
          /\ x.signInAt # x.createdAt
          /\ ~IsOpen(x)

\* C4: two /start requests of one user are not mutually excluded.  Once both
\* have completed, both sessions are open exactly when each request ran its
\* close step before the other ran its create step.
C4_TwoOpenIffInterleaved ==
    \A r1, r2 \in Reqs :
        (r1 # r2 /\ pc[r1] = "done" /\ pc[r2] = "done"
            /\ loc[r1].userDoc.username = loc[r2].userDoc.username) =>
        \E s1, s2 \in sessions :
            /\ s1.sid = loc[r1].mine
            /\ s2.sid = loc[r2].mine
            /\ (IsOpen(s1) /\ IsOpen(s2)) <=>
                   (loc[r1].tClose < s2.createdAt /\ loc[r2].tClose < s1.createdAt)

\* C4 witness: both requests have completed and two sessions of the username
\* have signOutAt = null.
C4_Witness ==
    /\ \A r \in Reqs : pc[r] = "done"
    /\ \E s1, s2 \in sessions :
          /\ s1.sid = loc["r1"].mine
          /\ s2.sid = loc["r2"].mine
          /\ s1.username = s2.username
          /\ IsOpen(s1)
          /\ IsOpen(s2)

\* C5: a roster pass that directly follows a pass of the same handler whose
\* inserts all succeeded inserts no account.
C5_SecondPassInsertsNothing ==
    (IsListOp(lastOp.op) /\ lastOp.again) => lastOp.inserted = {}

\* C5 witness: a second pass has run over a ledger whose names the first pass
\* turned into accounts.
C5_Witness ==
    /\ IsListOp(lastOp.op)
    /\ lastOp.again
    /\ Cardinality(users) >= 2
    /\ \A u \in users : IsPlaceholderEmail(u.email)

\* C6: after a pass none of whose inserts failed, every ledger username that
\* is non-empty after trimming has an account or a tombstone.
C6_EveryLedgerNameCovered ==
    (lastOp.op = "list" /\ ~lastOp.insertErr) =>
        \A e \in ledger :
            (e.username # Null /\ Trim(e.username) # <<>>) =>
                \/ normUsernameKey(e.username) \in UserKeys(users)
                \/ normUsernameKey(e.username) \in TombKeys(tombs)

\* C7: with requests served one at a time no two accounts have the same
\* normalized username.
C7_OneAccountPerNormalizedUsername ==
    \A u, v \in users :
        normUsernameKey(u.username) = normUsernameKey(v.username) => u = v

\* C8: when two roster requests both computed the same missing username,
\* then once both have completed the store holds one account of that
\* username and an insert failed if it enforces uniqueness, and two accounts
\* of that username if it enforces none.
C8_RaceOutcome ==
    \A r1, r2 \in Reqs :
        (r1 # r2 /\ pc[r1] = "done" /\ pc[r2] = "done") =>
        \A i \in 1..Len(loc[r1].docs), j \in 1..Len(loc[r2].docs) :
            loc[r1].docs[i].username = loc[r2].docs[j].username =>
                LET n == Cardinality({u \in users :
                                        u.username = loc[r1].docs[i].username})
                IN IF uniqueIdx
                   THEN n = 1 /\ (loc[r1].insertErr \/ loc[r2].insertErr)
                   ELSE n = 2

\* C8 witness: no uniqueness enforced, both requests done, two placeholder
\* accounts of one normalized username.
C8_Witness ==
    /\ ~uniqueIdx
    /\ \A r \in Reqs : pc[r] = "done"
    /\ \E u, v \in users :
          /\ u # v
          /\ u.username = v.username
          /\ IsPlaceholderEmail(u.email)
          /\ IsPlaceholderEmail(v.email)

\* C9: whatever inserts fail, the roster request answers 200 with the roster,
\* and the accounts whose insert succeeded are in the store and in the roster.
C9_InsertFailureTolerated ==
    IsListOp(lastOp.op) =>
        /\ lastOp.status = 200
        /\ \A id \in lastOp.inserted : \E u \in users : u.id = id
        /\ lastOp.inserted \subseteq lastOp.rows

\* C9 witness: a pass in which one insert failed and another succeeded.
C9_Witness ==
    /\ IsListOp(lastOp.op)
    /\ lastOp.insertErr
    /\ lastOp.inserted # {}
    /\ lastOp.status = 200

\* C10: /logins/start with a missing email answers 400, with an unknown email
\* 404, for an account neither active nor approved 403, and in each case
\* leaves the sessions as they were.
C10_RejectedStartChangesNothing ==
    [][ lastOp'.op = "start" =>
          LET e == lastOp'.arg
              missing == e = Null \/ e = <<>>
              found == IF missing THEN {} ELSE {u \in users : u.email = Trim(e)}
          IN /\ missing => (lastOp'.status = 400 /\ sessions' = sessions)
             /\ (~missing /\ found = {}) => (lastOp'.status = 404 /\ sessions' = sessions)
             /\ (found # {} /\ \A u \in found : ~(u.status = "active" \/ u.isApproved))
                    => (lastOp'.status = 403 /\ sessions' = sessions)
      ]_vars

\* C10 witness: a blocked user holding an open session was refused, and the
\* session is still open.
C10_Witness ==
    /\ lastOp.op = "start"
    /\ lastOp.status = 403
    /\ \E u \in users :
          /\ u.email = lastOp.arg
          /\ u.status = "blocked"
          /\ OpenOf(u.username) # {}

\* C11: POST /logins/end answers 400 to a missing or malformed sessionId
\* and 404 to a well-formed one of no session, leaving the sessions as they
\* were, and answers 200 to the id of a session, whose signOutAt it sets.
C11_EndIsClientErrorOrSuccess ==
    [][lastOp'.op = "end" =>
        LET sid == lastOp'.sid
            found == {x \in sessions : x.sid = sid}
        IN IF sid = 0 \/ sid = BadId
           THEN lastOp'.status = 400 /\ sessions' = sessions
           ELSE IF found = {}
           THEN lastOp'.status = 404 /\ sessions' = sessions
           ELSE /\ lastOp'.status = 200
                /\ \A x \in sessions' : x.sid = sid => ~IsOpen(x)]_vars

\* the sessions of the account a roster row shows
SessionsOfRow(row) ==
    {x \in sessions : TrimOrEmpty(x.username) = TrimOrEmpty(row.username)}

\* C12: in a roster response every row of a user with sessions carries the
\* signInAt and signOutAt of a session of that user with the greatest
\* signInAt and is online exactly when that session has no signOutAt; a row
\* of a user without sessions is not online.
C12_RowShowsLatestSession ==
    (IsListOp(lastOp.op) /\ lastOp.status = 200) =>
        \A row \in lastOp.body :
            IF SessionsOfRow(row) = {}
            THEN ~row.isOnline
            ELSE \E x \in SessionsOfRow(row) :
                    /\ \A y \in SessionsOfRow(row) : y.signInAt <= x.signInAt
                    /\ row.lastSignInAt = x.signInAt
                    /\ row.lastSignOutAt = x.signOutAt
                    /\ row.isOnline = (x.signOutAt = NoTime)

\* C12 witness: a row is online although its user has an older, closed
\* session with a smaller signInAt.
C12_Witness ==
    /\ IsListOp(lastOp.op)
    /\ \E row \in lastOp.body :
          /\ row.isOnline
          /\ \E y \in SessionsOfRow(row) :
                y.signInAt < row.lastSignInAt /\ y.signOutAt # NoTime

\* a successful DELETE /admin/users/virtual:<name> (rows names the account
\* of a delete by id)
IsVirtualDelete(op) == op.op = "delete" /\ op.status = 200 /\ op.rows = {}

\* C13: a virtual delete succeeds and leaves a tombstone for the trimmed,
\* lower-cased name, also when no account of that name exists, and no later
\* roster listing creates an account whose normalized username is tombstoned,
\* whatever the letter case of the ledger entry.
C13_VirtualDeleteBlocksResurrection ==
    [][/\ IsVirtualDelete(lastOp') =>
            normUsernameKey(lastOp'.arg) \in TombKeys(tombs')
       /\ IsListOp(lastOp'.op) =>
            \A u \in users' \ users :
                normUsernameKey(u.username) \notin TombKeys(tombs)]_vars

\* C14: once a virtual delete has succeeded, no session, ledger entry or
\* account is left whose normalized username is the normalized name, and the
\* tombstone of that name is present.
C14_VirtualDeletePurges ==
    [][IsVirtualDelete(lastOp') =>
        LET k == normUsernameKey(lastOp'.arg)
        IN /\ k \in TombKeys(tombs')
           /\ \A x \in sessions' : normUsernameKey(x.username) # k
           /\ \A e \in ledger' : normUsernameKey(e.username) # k
           /\ \A u \in users' : normUsernameKey(u.username) # k]_vars

\* C15: whenever a step of a delete removes a session, a ledger entry or an
\* account, the tombstone of its normalized username is already in the
\* Tombstone Store; so a delete that fails midway, having removed some of
\* the data, leaves the tombstone behind.
C15_TombstoneBeforeRemoval ==
    [][/\ \A x \in sessions :
            (\A y \in sessions' : y.sid # x.sid) =>
                normUsernameKey(x.username) \in TombKeys(tombs)
       /\ \A e \in ledger :
            (\A f \in ledger' : f.eid # e.eid) =>
                normUsernameKey(e.username) \in TombKeys(tombs)
       /\ \A u \in users :
            (\A v \in users' : v.id # u.id) =>
                normUsernameKey(u.username) \in TombKeys(tombs)]_vars

\* C15 witness: a delete failed after it had removed something, the account
\* is still there, and so is the tombstone.
C15_Witness ==
    /\ lastOp.op = "delete" /\ lastOp.status = 500
    /\ \E r \in Reqs :
          /\ pc[r] = "idle"
          /\ loc[r].purged
          /\ loc[r].username = lastOp.arg
          /\ normUsernameKey(lastOp.arg) \in UserKeys(users)
          /\ normUsernameKey(lastOp.arg) \in TombKeys(tombs)

\* C16: no step removes a tombstone, no two tombstones have the same
\* normalized username, and a successful delete of a name directly after a
\* successful delete of the same name in any letter case changes no store.
C16_TombstonesAppendOnlyNoDuplicates ==
    [][/\ tombs \subseteq tombs'
       /\ \A t1, t2 \in tombs' :
            normUsernameKey(t1) = normUsernameKey(t2) => t1 = t2
       /\ (/\ lastOp.op = "delete" /\ lastOp.status = 200
           /\ lastOp'.op = "delete" /\ lastOp'.status = 200
           /\ normUsernameKey(lastOp.arg) = normUsernameKey(lastOp'.arg))
          => <<users, tombs, ledger, sessions>>' = <<users, tombs, ledger, sessions>>]_vars

\* the sum of f over the finite set S
RECURSIVE SumFn(_, _)
SumFn(f, S) ==
    IF S = {} THEN 0
    ELSE LET k == CHOOSE x \in S : TRUE IN f[k] + SumFn(f, S \ {k})

\* what one entry adds to the sum of its type
Contribution(e) == IF e.amountFinal = NoAmount THEN e.amount ELSE e.amountFinal

\* the entries of a game that a GET /games response with lastOp.arg as its
\* month prefix counts
EntriesOfGame(name) ==
    {e \in ledger : e.gameName = name /\ StartsWith(e.date, lastOp.arg)}

TypeSum(es, type) ==
    SumFn([e \in {x \in es : x.type = type} |-> Contribution(e)],
          {x \in es : x.type = type})

\* the sum over the (username, date) groups of redeem - deposit - freeplay
GroupedNet(es) ==
    LET keys == {<<e.username, e.date>> : e \in es}
        group(k) == {e \in es : <<e.username, e.date>> = k}
    IN SumFn([k \in keys |-> TypeSum(group(k), "redeem") - TypeSum(group(k), "deposit")
                                - TypeSum(group(k), "freeplay")], keys)

IsGamesList(op) == op.op = "games" /\ op.status = 200 /\ op.rows # {}

\* C17: every game of a GET /games response has totalCoins equal to
\* coinsRecharged plus the sum over its (gameName, username, date) groups of
\* redeem - deposit - freeplay, or 0 when that is negative.
C17_TotalCoinsIsFlooredNet ==
    IsGamesList(lastOp) =>
        \A row \in lastOp.body :
            LET v == row.coinsRecharged + GroupedNet(EntriesOfGame(row.name))
            IN /\ row.totalCoins = IF v < 0 THEN 0 ELSE v
               /\ row.totalCoins >= 0

\* C17 witness: baseline 0, one user deposits 100 and redeems 40 on one day:
\* the net is -60 and totalCoins is 0.
C17_Witness ==
    /\ IsGamesList(lastOp)
    /\ lastOp.arg = <<>>
    /\ \E row \in lastOp.body :
          /\ row.coinsRecharged = 0
          /\ row.deposit = 100 /\ row.redeem = 40 /\ row.freeplay = 0
          /\ GroupedNet(EntriesOfGame(row.name)) = 0 - 60
          /\ Cardinality({<<e.username, e.date>> : e \in EntriesOfGame(row.name)}) = 1
          /\ row.totalCoins = 0

\* coinsRecharged plus the flat sums redeem - deposit - freeplay, floored at 0
FlatTotalCoins(row) ==
    LET es == EntriesOfGame(row.name)
        v == row.coinsRecharged + TypeSum(es, "redeem") - TypeSum(es, "deposit")
                - TypeSum(es, "freeplay")
    IN IF v < 0 THEN 0 ELSE v

\* a game has a redemption by one user on one day and a deposit by another
\* user on another day
HasCrossUserCrossDay(es) ==
    \E r, d \in es :
        /\ r.type = "redeem" /\ d.type = "deposit"
        /\ r.username # d.username /\ r.date # d.date

\* C18 as stated: when a game has one user's redemption on one day and
\* another user's deposit on another day, its totalCoins differs from the
\* value obtained by netting the flat per-game sums.
C18_GroupedDiffersFromFlat ==
    IsGamesList(lastOp) =>
        \A row \in lastOp.body :
            HasCrossUserCrossDay(EntriesOfGame(row.name)) =>
                row.totalCoins # FlatTotalCoins(row)

\* C18 amended: the per-group net is summed without any per-group floor, so
\* for every game and every ledger totalCoins equals the value obtained by
\* netting the flat per-game sums; a redemption is netted against another
\* user's deposit of another day.
C18_GroupedEqualsFlat ==
    IsGamesList(lastOp) =>
        \A row \in lastOp.body : row.totalCoins = FlatTotalCoins(row)

\* C18 witness: a game with a redemption of 100 by one user on one day and a
\* deposit of 40 by another user on another day reports 50 + 100 - 40.
C18_Witness ==
    /\ IsGamesList(lastOp)
    /\ \E row \in lastOp.body :
          /\ HasCrossUserCrossDay(EntriesOfGame(row.name))
          /\ row.coinsRecharged = 50 /\ row.redeem = 100 /\ row.deposit = 40
          /\ row.totalCoins = 110

\* the entries stored under the username of a roster row, as spelled up to
\* surrounding whitespace
EntriesSpelledAs(username) ==
    {e \in ledger : e.username # Null /\ Trim(e.username) = Trim(username)}

\* C19: in the roster totals, the per-game totals and the recharge history
\* an entry counts with its amountFinal when it has one and with its amount
\* otherwise, and only in the sum of its own type.
C19_AmountFinalPrecedence ==
    /\ (lastOp.op = "list" /\ lastOp.status = 200) =>
          \A row \in lastOp.body :
              /\ row.totalDeposit = TypeSum(EntriesSpelledAs(row.username), "deposit")
              /\ row.totalRedeem = TypeSum(EntriesSpelledAs(row.username), "redeem")
              /\ row.totalFreeplay = TypeSum(EntriesSpelledAs(row.username), "freeplay")
    /\ IsGamesList(lastOp) =>
          \A row \in lastOp.body :
              /\ row.deposit = TypeSum(EntriesOfGame(row.name), "deposit")
              /\ row.redeem = TypeSum(EntriesOfGame(row.name), "redeem")
              /\ row.freeplay = TypeSum(EntriesOfGame(row.name), "freeplay")
    /\ (lastOp.op = "history" /\ lastOp.status = 200) =>
          /\ {row.id : row \in lastOp.body}
                = {e.eid : e \in {x \in ledger : x.gameName = lastOp.arg
                                                   /\ x.type = "deposit"}}
          /\ \A row \in lastOp.body :
                \A e \in ledger :
                    e.eid = row.id =>
                        /\ row.amount = Contribution(e)
                        /\ row.afterCoins - row.beforeCoins = Contribution(e)

\* C19 witness: a single deposit with amountFinal 50 and amount 30 shows as
\* a deposit total of 50 and as nothing in the other totals.
C19_Witness ==
    /\ lastOp.op = "list"
    /\ \E row \in lastOp.body :
          /\ row.totalDeposit = 50 /\ row.totalRedeem = 0 /\ row.totalFreeplay = 0
          /\ \E e \in ledger :
                /\ EntriesSpelledAs(row.username) = {e}
                /\ e.type = "deposit" /\ e.amountFinal = 50 /\ e.amount = 30

\* the entries of one identity: usernames equal after trimming and lower-casing
EntriesOfIdentity(username) ==
    {e \in ledger : e.username # Null
                     /\ normUsernameKey(e.username) = normUsernameKey(username)}

\* C20: ledger usernames that differ only in letter case or surrounding
\* whitespace are one identity: a roster listing leaves one account for them,
\* and its row reports the sums over the entries of all the spellings.
C20_OneIdentityCombinedTotals ==
    (lastOp.op = "list" /\ lastOp.status = 200) =>
        /\ \A u, v \in users :
              normUsernameKey(u.username) = normUsernameKey(v.username) => u = v
        /\ \A row \in lastOp.body :
              /\ row.totalDeposit = TypeSum(EntriesOfIdentity(row.username), "deposit")
              /\ row.totalRedeem = TypeSum(EntriesOfIdentity(row.username), "redeem")
              /\ row.totalFreeplay = TypeSum(EntriesOfIdentity(row.username), "freeplay")

\* a query value that is supplied and numeric: a non-empty string of digits
IsNumeric(v) == v # Null /\ v # <<>> /\ \A i \in 1..Len(v) : IsDigitChar(v[i])

\* the month of a request that names one: both values numeric, month in 1..12
NamesMonth(query) ==
    /\ IsNumeric(query[1]) /\ IsNumeric(query[2])
    /\ DecVal(query[2]) \in 1..12

\* YYYY-MM of a request that names a month, the month zero-padded
YearMonth(query) ==
    query[1] \o <<"-">> \o
        (IF DecVal(query[2]) < 10 THEN <<"0", Digit(DecVal(query[2]))>>
         ELSE <<"1", Digit(DecVal(query[2]) - 10)>>)

\* the entries a request with this year and month is to count
InMonth(query) ==
    {e \in ledger : NamesMonth(query) => StartsWith(e.date, YearMonth(query))}

\* C21: GET /games and GET /games/:id/recharge-history count the entries
\* whose date starts with YYYY-MM when year and month are both supplied and
\* numeric and month is in 1..12, and count every entry otherwise.
C21_MonthFilter ==
    /\ IsGamesList(lastOp) =>
          \A row \in lastOp.body :
              LET es == {e \in InMonth(lastOp.query) : e.gameName = row.name}
              IN /\ row.deposit = TypeSum(es, "deposit")
                 /\ row.redeem = TypeSum(es, "redeem")
    /\ (lastOp.op = "history" /\ lastOp.status = 200) =>
          {row.id : row \in lastOp.body}
              = {e.eid : e \in {x \in InMonth(lastOp.query) :
                                   x.gameName = lastOp.arg /\ x.type = "deposit"}}

\* the accounts a step has added
Created == {u \in users' : \A v \in users : v.id # u.id}

\* the accounts the pass that made the step had read: those of its find({})
\* when it is a request in flight, the store itself when served whole
ReadByPass ==
    IF \E r \in Reqs : pc[r] = "insert" /\ pc'[r] = "respond"
    THEN (CHOOSE r \in Reqs : pc[r] = "insert" /\ pc'[r] = "respond")
    ELSE "whole"

IsPendingPlaceholder(u) ==
    /\ u.status = "pending" /\ u.isApproved = FALSE /\ u.role = "user"
    /\ IsPlaceholderEmail(u.email)

C23_ApprovedIffActive ==
    [][/\ \A u \in users' : u.isApproved = (u.status = "active")
       /\ (lastOp'.op = "approve" /\ lastOp'.status = 200) =>
             \A u \in users' :
                 u.id \in lastOp'.rows => (u.isApproved /\ u.status = "active")
       /\ (lastOp'.op = "block" /\ lastOp'.status = 200) =>
             \A u \in users' :
                 u.id \in lastOp'.rows => (~u.isApproved /\ u.status = "blocked")
       /\ \A u \in Created : ~u.isApproved /\ u.status = "pending"]_vars

\* C23 witness: an account approved after it had been blocked (it holds the
\* session of an earlier approve) next to an account that is blocked.
C23_Witness ==
    /\ lastOp.op = "approve" /\ lastOp.status = 200
    /\ \E u, v \in users :
          /\ u.id \in lastOp.rows
          /\ u.isApproved /\ u.status = "active"
          /\ \E x \in sessions : x.username = u.username /\ x.sid # lastOp.sid
          /\ ~v.isApproved /\ v.status = "blocked"

\* C24: a POST /games whose name is that of an existing game answers 409
\* and leaves the Game collection as it was, and with requests served one at
\* a time no two games have the same name.
C24_DuplicateNameRefused ==
    [][/\ (lastOp'.op = "createGame" /\ \E g \in games : g.name = lastOp'.arg) =>
             (lastOp'.status = 409 /\ games' = games)
       /\ \A g, h \in games' : g.name = h.name => g = h]_vars

\* C24 witness: with two games stored, a POST of the name of one of them,
\* with another baseline, was answered 409.
C24_Witness ==
    /\ lastOp.op = "createGame" /\ lastOp.status = 409
    /\ Cardinality(games) = 2
    /\ \E g \in games : g.name = lastOp.arg

\* the sum of the amounts of the first n rows of a history
RECURSIVE SumAmounts(_, _)
SumAmounts(h, n) == IF n = 0 THEN 0 ELSE SumAmounts(h, n - 1) + h[n].amount

\* C25: the recharge history lists the deposit entries of the game, each
\* once, by date ascending and by insertion id within a date, with a running
\* balance: the first row starts at 0, each row ends at its start plus its
\* amount, each row starts where the row before it ended, and the last row
\* ends at the sum of the amounts listed.
C25_RunningBalance ==
    (lastOp.op = "history" /\ lastOp.status = 200) =>
        LET h == lastOp.list
            deposits == {e \in InMonth(lastOp.query) :
                            e.gameName = lastOp.arg /\ e.type = "deposit"}
        IN /\ Len(h) = Cardinality(deposits)
           /\ \A e \in deposits : \E i \in 1..Len(h) :
                 h[i].id = e.eid /\ h[i].date = e.date /\ h[i].amount = Contribution(e)
           /\ \A i, j \in 1..Len(h) :
                 i < j => \/ StrLess(h[i].date, h[j].date)
                          \/ (h[i].date = h[j].date /\ h[i].id < h[j].id)
           /\ Len(h) > 0 => h[1].beforeCoins = 0
           /\ \A i \in 1..Len(h) : h[i].afterCoins = h[i].beforeCoins + h[i].amount
           /\ \A i \in 1..(Len(h) - 1) : h[i + 1].beforeCoins = h[i].afterCoins
           /\ Len(h) > 0 => h[Len(h)].afterCoins = SumAmounts(h, Len(h))

\* C25 witness: a deposit of April entered before a deposit of March: the
\* March row comes first, and the history ends at 140.
C25_Witness ==
    /\ lastOp.op = "history" /\ lastOp.status = 200
    /\ Len(lastOp.list) = 2
    /\ lastOp.list[1].id > lastOp.list[2].id
    /\ lastOp.list[1].date = March5 /\ lastOp.list[2].date = April1
    /\ lastOp.list[1].amount # lastOp.list[2].amount
    /\ lastOp.list[2].afterCoins = 140

\* C26: the insert of a roster request writes every document the request
\* built from its reads, whatever has been tombstoned since: a virtual delete
\* served between the reads and the insert does not prevent the insert.
C26_InsertIgnoresLaterTombstone ==
    [][\A r \in Reqs :
          (pc[r] = "insert" /\ pc'[r] = "respond") =>
              \A i \in 1..Len(loc[r].docs) :
                  \E u \in Created : u.username = loc[r].docs[i].username]_vars

\* C26 witness: the request read no tombstone of the name, the delete of the
\* name then returned success, and the request inserted: the tombstone and a
\* synthesized account of the same normalized username are both there.
C26_Witness ==
    /\ IsVirtualDelete(lastOp)
    /\ normUsernameKey(lastOp.arg) \in TombKeys(tombs)
    /\ \E r \in Reqs, u \in users :
          /\ pc[r] = "respond"
          /\ normUsernameKey(lastOp.arg) \notin TombKeys(loc[r].deletedRows)
          /\ u.id >= loc[r].mine
          /\ normUsernameKey(u.username) = normUsernameKey(lastOp.arg)
          /\ IsPendingPlaceholder(u)

\* C27: once handleConfirmSignOut has run, the component is signed out
\* locally (isSignedIn false, sessionId and signInDateTime null, userSession
\* removed from localStorage) and onLogout has been called, whatever became
\* of the POST /logins/end.
C27_SignOutAlwaysClears ==
    client.last = "signOut" =>
        /\ ~client.isSignedIn
        /\ client.sessionId = 0
        /\ client.signInDateTime = NoTime
        /\ ~client.userSession
        /\ client.loggedOut

\* the stores a listing of part_000 with this ?status= can leave behind
OutcomesOf(status) ==
    {InsertMany(users, nextUid, RosterDocs(order, findAllUsers(users, status), tombs),
                1, failing, uniqueIdx).users :
        order \in Orderings(gameUsernames(ledger)), failing \in {{}, {1}}}

\* the same of the listing of adminUsers.js
OutcomesOf_v1(status) ==
    {InsertMany(users, nextUid, RosterDocs_v1(order, findAllUsers(users, status), tombs),
                1, failing, uniqueIdx).users :
        order \in Orderings(gameUsernames_v1(ledger)), failing \in {{}, {1}}}

\* C28: the accounts a roster listing creates do not depend on ?status=:
\* from the same stores, what a listing leaves in the User collection is
\* what a listing with any other status (or none) leaves, given the same
\* order of the aggregate and the same failing inserts.
C28_SynthesisIgnoresStatus ==
    [][/\ lastOp'.op = "list" => \A status \in StatusParams : users' \in OutcomesOf(status)
       /\ lastOp'.op = "list_v1" =>
             \A status \in StatusParams : users' \in OutcomesOf_v1(status)]_vars

\* C28 witness: a listing has created an account that its own response
\* leaves out, next to an account that is in the response.
C28_Witness ==
    /\ IsListOp(lastOp.op)
    /\ lastOp.inserted # {}
    /\ lastOp.inserted \cap lastOp.rows = {}
    /\ lastOp.rows # {}

\* C29: in a roster response a user is online exactly when the user has a
\* session without signOutAt, whatever signInAt the clients supplied when
\* they started the sessions.
C29_OnlineIffOpenSession ==
    (IsListOp(lastOp.op) /\ lastOp.status = 200) =>
        \A row \in lastOp.body :
            row.isOnline <=> \E x \in SessionsOfRow(row) : IsOpen(x)

\* the accounts a /logins/start with this email finds
FoundByEmail(email) ==
    IF email = Null \/ email = <<>> THEN {} ELSE {u \in users : u.email = Trim(email)}

\* C30: a block sets isApproved to false and status to blocked on its
\* account and changes nothing else: every other account, every field of
\* the account but these two, and every session stay as they were, so a
\* session open at the block is still open after it; a /logins/start of a
\* blocked user is answered 403 and records no session, and a start of the
\* user approved again succeeds.
C30_BlockFrame ==
    [][/\ (lastOp'.op = "block" /\ lastOp'.status = 200) =>
             /\ sessions' = sessions
             /\ <<tombs, ledger, games>>' = <<tombs, ledger, games>>
             /\ users' = {IF u.id \in lastOp'.rows
                           THEN [u EXCEPT !.isApproved = FALSE, !.status = "blocked"]
                           ELSE u : u \in users}
       /\ (lastOp'.op = "start" /\ FoundByEmail(lastOp'.arg) # {}) =>
             /\ (\A u \in FoundByEmail(lastOp'.arg) : u.status = "blocked") =>
                    (lastOp'.status = 403 /\ sessions' = sessions)
             /\ (\A u \in FoundByEmail(lastOp'.arg) : u.status = "active") =>
                    lastOp'.status = 201]_vars

\* C30 witness: a block has just been served for a user with an open
\* session, and the session is still open.
C30_Witness ==
    /\ lastOp.op = "block" /\ lastOp.status = 200
    /\ \E u \in users :
          /\ u.id \in lastOp.rows
          /\ u.status = "blocked" /\ ~u.isApproved
          /\ \E x \in OpenOf(u.username) : x.signInAt # x.createdAt

=============================================================================
